---- MODULE Spec2Model ----
(***************************************************************************)
(* Scene-chain generation and video assembly of trillboards-content.       *)
(*                                                                         *)
(*   Spec       VEOChainGenerator.generate_scene_chain with                *)
(*              _generate_single_scene, _poll_operation_completion,        *)
(*              _download_from_gcs and _extract_last_frame                 *)
(*              (src/scripts/veo_chain_generator.py)                       *)
(*                                                                         *)
(*   SpecPoll   the same call on short blueprints, with every return of    *)
(*              the poller written down                                    *)
(*   SpecCompose  FFmpegPipeline._stitch_with_crossfades_only              *)
(*              (src/scripts/ffmpeg_pipeline.py) and                       *)
(*              MoviePyCrossfadePipeline.crossfade_scenes                  *)
(*              (src/scripts/moviepy_crossfade_pipeline.py), one call and  *)
(*              a repeated call on the same pipeline object; one call of   *)
(*              FFmpegPipeline.stitch_scenes                               *)
(*   SpecOverlay  the caption overlay of the two MoviePy pipelines         *)
(*              (add_text_overlays, _add_text_overlays_moviepy)            *)
(*   SpecRemote the chain call with the jobs of the backend followed       *)
(*   SpecAnswers  the chain call with the answers to the status queries    *)
(*              written down                                               *)
(*   SpecPrompt VEOChainGenerator._build_complete_prompt                   *)
(*   SpecRun    VideoOrchestrator.batch_generate_videos with               *)
(*              generate_complete_video (src/scripts/video_orchestrator.py) *)
(*              and run_complete_pipeline                                  *)
(*              (src/scripts/complete_video_pipeline.py)                   *)
(*                                                                         *)
(* Times are integers.  The chain counts seconds, the two compositors      *)
(* count tenths of a second (0.5 s is 5, 8.0 s is 80).                     *)
(***************************************************************************)
EXTENDS Integers, Sequences, FiniteSets, TLC

VARIABLES
    \* ---- generate_scene_chain ----
    scenes,          \* blueprint['scene_breakdown']
    pc,              \* position of the running call
    i,               \* loop variable of "for i, scene in enumerate(scenes, 1)"
    retry_count,
    scene_file,      \* a local path, or NoPath for None
    previous_frame,  \* a frame, or NoFrame for None
    scene_files,
    result,          \* what generate_scene_chain returned or raised
    \* ---- _generate_single_scene / _poll_operation_completion ----
    request,         \* the payload of the last requests.post to predict_endpoint
    operation,       \* the asset the accepted remote job produces
    attempts,        \* the poller's counter
    video_gcs_uri,   \* what the poller returned to _generate_single_scene
    files,           \* output_dir/scenes: path -> asset stored there
    \* ---- observations (not program state) ----
    nattempts,       \* calls of _generate_single_scene in the current while loop
    lastRequested,   \* highest scene index a request was posted for
    extracted,       \* scene -> outcome of _extract_last_frame on its clip
    pollCause,       \* why the last poll returned
    pollSeen,        \* <<cause, returned value>> of every poll that returned
    observePolls,    \* whether pollSeen is kept (SpecPoll) or not (Spec)
    downloadTried,   \* _download_from_gcs was called in the current attempt
    abortCause,
    waits,           \* the time.sleep arguments of the current while loop, in order
    pollQueries,     \* status queries posted by the current or last poll
    poll_slept,      \* seconds the current or last poll spent in time.sleep
    submitAnswer,    \* what the backend answered to the post of the call of
                     \* _generate_single_scene that has just returned
    observeRemote,   \* whether the backend's jobs are followed (SpecRemote)
    orphaned,        \* a job the poller gave up on is still running remotely
    chainAttempts,   \* calls of _generate_single_scene since the chain began
                     \* (counted in SpecRemote)
    observeAnswers,  \* whether pollAnswer is kept (SpecAnswers)
    pollAnswer,      \* what the last status query of the poll came back with
    \* ---- FFmpegPipeline._stitch_with_crossfades_only ----
    ff_pc,
    ff_n,            \* len(scene_files)
    ff_k,            \* loop variable of the running loop
    ff_normalized,   \* normalized_files: indexes k of temp/normalized_k.mp4
    ff_video,        \* the xfade filters appended to filter_parts
    ff_audio,        \* the acrossfade filters appended to filter_parts
    ff_temp,         \* indexes k with temp/normalized_k.mp4 on disk
    ff_list,         \* temp/scenes_concat.txt is on disk
    ff_result,       \* "running", "crossfade", "fallback" (an output path) or "None"
    ff_fallback,     \* _fallback_basic_concat was called
    ff_calls,
    ff_prev,         \* the filters of the previous call on this object
    \* ---- MoviePyCrossfadePipeline.crossfade_scenes ----
    mp_pc,
    mp_durs,         \* clip.duration of every scene file, in order
    mp_c,            \* crossfade_duration
    mp_k,
    current_start,
    timeline_clips,  \* start offset of every clip put on the timeline
    mp_duration,     \* final_clip.duration
    mp_result,
    mp_calls,
    mp_prev,         \* timeline and duration of the previous call
    mp_effects,      \* the vfx effects put on every clip, in order
    mp_fallback,     \* concatenate_videoclips was called on the clips
    \* ---- FFmpegPipeline.stitch_scenes ----
    st_pc,
    st_n,            \* len(scene_files)
    st_tooling,      \* the concat tool would exit 0 on these files
    st_result,       \* "running", "ValueError", "None" or "output" (a path)
    st_error,        \* the exception caught at lines 67-69
    st_output,       \* what the file at output_path holds
    \* ---- add_text_overlays / _add_text_overlays_moviepy ----
    ov_pc,
    ov_class,        \* the class whose overlay method runs
    video_size,      \* (video_clip.w, video_clip.h)
    captions,        \* blueprint['caption_overlay']
    ov_k,            \* position of the for loop in captions
    text_clips,
    ov_raised,       \* positions of the captions whose try block raised
    ov_result,       \* "running", "video_clip" (the input) or "composite"
    \* ---- VEOChainGenerator._build_complete_prompt ----
    pr_pc,
    pr_scenes,       \* blueprint['scene_breakdown']
    pr_script,       \* blueprint['script']
    pr_blueprint,    \* a blueprint was passed to _generate_single_scene
    pr_k,            \* the scene the prompt is built for
    scene_start_time,
    scene_end_time,
    pr_j,            \* position of the for loop in the script
    script_lines,    \* positions of the script items appended so far
    pr_prompt,       \* the prompt put into instance_data (line 190)
    \* ---- VideoOrchestrator.batch_generate_videos with
    \*      generate_complete_video, and run_complete_pipeline ----
    run_pc,
    run_fn,          \* "batch_generate_videos" or "run_complete_pipeline"
    themes,          \* per theme, the number of scenes of its blueprint
    test_mode,
    run_k,           \* position of the for loop in themes
    run_scene_files, \* scene_files of the running call, <<>> for None
    run_stages,      \* the stages the running call has executed, in order
    run_failed,      \* the stage of the running call that failed
    run_thumbnail,   \* "none", "created" or "None"
    run_metadata,    \* the run metadata of the running call was written
    run_result,      \* "running", "None", "raised", "blueprint_only", "complete"
    results,         \* the list batch_generate_videos returns
    chains,          \* the lists generate_scene_chain returned so far
    disk             \* output_dir/scenes: file name -> the clip it holds

chainVars == <<scenes, pc, i, retry_count, scene_file, previous_frame,
               scene_files, result, request, operation, attempts,
               video_gcs_uri, files, nattempts, lastRequested, extracted,
               pollCause, pollSeen, observePolls, downloadTried,
               abortCause, waits, pollQueries, poll_slept, submitAnswer,
               observeRemote, orphaned, chainAttempts, observeAnswers,
               pollAnswer>>

pollClock == <<pollQueries, poll_slept>>

ffVars == <<ff_pc, ff_n, ff_k, ff_normalized, ff_video, ff_audio, ff_temp,
            ff_list, ff_result, ff_fallback, ff_calls, ff_prev>>

mpVars == <<mp_pc, mp_durs, mp_c, mp_k, current_start, timeline_clips,
            mp_duration, mp_result, mp_calls, mp_prev, mp_effects,
            mp_fallback>>

stVars == <<st_pc, st_n, st_tooling, st_result, st_error, st_output>>

ovVars == <<ov_pc, ov_class, video_size, captions, ov_k, text_clips,
            ov_raised, ov_result>>

prVars == <<pr_pc, pr_scenes, pr_script, pr_blueprint, pr_k, scene_start_time,
            scene_end_time, pr_j, script_lines, pr_prompt>>

runVars == <<run_pc, run_fn, themes, test_mode, run_k, run_scene_files,
             run_stages, run_failed, run_thumbnail, run_metadata, run_result,
             results, chains, disk>>

composeVars == <<ffVars, mpVars, stVars, ovVars, prVars, runVars>>

vars == <<chainVars, composeVars>>

-----------------------------------------------------------------------------
(* Bounds of the model *)

MaxScenes == 3

PollScenes == 2

MaxClips == 5

MaxCalls == 2

MaxCaptions == 2

MaxScript == 2

MaxVideos == 2

MaxBatchScenes == 2

(* Program constants *)

max_retries == 3

max_attempts == 40

VeoMaxDuration == 8

SseofSeconds == 1

retry_wait == 30

poll_sleep == 15

crossfade_duration == 5

scene_duration == 80

DurationChoices == {5, 8, 10}

Min(a, b) == IF a < b THEN a ELSE b

-----------------------------------------------------------------------------
(* Values *)

NoPath == 0

NoAsset == [scene |-> 0, dur |-> 0]

NoFrame == [clip |-> NoAsset, from_end |-> 0]

NoRequest == [scene |-> 0, image |-> NoFrame, durationSeconds |-> 0]

\* A scene descriptor of the blueprint.
Scene(n, d) == [scene_number |-> n, duration_sec |-> d]

\* The blueprints of the data model: scene numbers contiguous from 1.
Blueprints ==
    UNION { { [k \in 1..n |-> Scene(k, ds[k])] : ds \in [1..n -> DurationChoices] }
            : n \in 0..MaxScenes }

N == Len(scenes)

-----------------------------------------------------------------------------
(* _generate_single_scene: the request *)

RequestDuration_Unclamped(scene) == scene.duration_sec

\* duration = min(scene.get('duration_sec', 8), 8)
RequestDuration(scene) == Min(scene.duration_sec, VeoMaxDuration)

\* instance_data["image"] is set only for a previous_frame that is a dict
BuildRequest(k, scene, frame) ==
    [scene |-> k,
     image |-> frame,
     durationSeconds |-> RequestDuration(scene)]

\* scene_filename = f"scene_{scene['scene_number']:02d}.mp4"
SceneFilename(scene) == scene.scene_number

\* ffmpeg -sseof -1 -i video -vframes 1: the first frame found one second
\* before the end of the clip (the start of a clip shorter than that).
FrameOf(clip) == [clip |-> clip, from_end |-> Min(SseofSeconds, clip.dur)]

-----------------------------------------------------------------------------
(* _poll_operation_completion *)

\* What one status query can come back with.
PollResponses ==
    {"exception",        \* requests.post raised
     "http_error",       \* status_code != 200
     "pending",          \* 200, done is false or missing
     "done_uri",         \* 200, done, videos[0]['gcsUri'] is a non-empty string
     "done_no_uri",      \* 200, done, videos[0] has no (or an empty) gcsUri
     "done_empty",       \* 200, done, videos is [] or null or missing
     "done_malformed"}   \* 200, done, 'response' is null or videos[0] is no dict

PollReturn_EmptyIsSuccess(cause, op) ==
    IF cause \in {"asset", "empty", "no_uri"} THEN op ELSE NoAsset

\* The value the poller hands back for each way it can end: the asset
\* reference on success, None at every other return statement.
PollReturn(cause, op) ==
    CASE cause = "asset"      -> op
      [] cause = "no_uri"     -> NoAsset
      [] cause = "empty"      -> NoAsset
      [] cause = "http_error" -> NoAsset
      [] cause = "timeout"    -> NoAsset

\* while attempts < max_attempts
PollContinues(a) == a < max_attempts

-----------------------------------------------------------------------------
(* The compositors when no composition is running *)

NoFilters == [n |-> 0, video |-> <<>>, audio |-> <<>>]

NoTimeline == [starts |-> <<>>, duration |-> 0]

FFIdle ==
    /\ ff_pc = "idle"
    /\ ff_n = 0
    /\ ff_k = 0
    /\ ff_normalized = <<>>
    /\ ff_video = <<>>
    /\ ff_audio = <<>>
    /\ ff_temp = {}
    /\ ff_list = FALSE
    /\ ff_result = "running"
    /\ ff_fallback = FALSE
    /\ ff_calls = 0
    /\ ff_prev = NoFilters

MPIdle ==
    /\ mp_pc = "idle"
    /\ mp_durs = <<>>
    /\ mp_c = 0
    /\ mp_k = 0
    /\ current_start = 0
    /\ timeline_clips = <<>>
    /\ mp_duration = 0
    /\ mp_result = "running"
    /\ mp_calls = 0
    /\ mp_prev = NoTimeline
    /\ mp_effects = <<>>
    /\ mp_fallback = FALSE

\* An output file is the clips it shows, the timeline offset of each, and
\* the processing steps the clips went through.
NoOutput == [clips |-> <<>>, starts |-> <<>>, steps |-> {}]

STIdle ==
    /\ st_pc = "idle"
    /\ st_n = 0
    /\ st_tooling = FALSE
    /\ st_result = "running"
    /\ st_error = "none"
    /\ st_output = NoOutput

OVIdle ==
    /\ ov_pc = "idle"
    /\ ov_class = "none"
    /\ video_size = <<0, 0>>
    /\ captions = <<>>
    /\ ov_k = 0
    /\ text_clips = <<>>
    /\ ov_raised = {}
    /\ ov_result = "running"

\* A prompt is the scene whose prompt_text it starts with and the script
\* items whose dialogue follows it.
NoPrompt == [visual |-> 0, dialogue |-> <<>>]

PRIdle ==
    /\ pr_pc = "idle"
    /\ pr_scenes = <<>>
    /\ pr_script = <<>>
    /\ pr_blueprint = FALSE
    /\ pr_k = 0
    /\ scene_start_time = 0
    /\ scene_end_time = 0
    /\ pr_j = 0
    /\ script_lines = <<>>
    /\ pr_prompt = NoPrompt

\* A clip file is the chain (the video of the batch) and the scene it shows.
NoClip == [video |-> 0, scene |-> 0]

RunIdle ==
    /\ run_pc = "idle"
    /\ run_fn = "none"
    /\ themes = <<>>
    /\ test_mode = FALSE
    /\ run_k = 0
    /\ run_scene_files = <<>>
    /\ run_stages = <<>>
    /\ run_failed = "none"
    /\ run_thumbnail = "none"
    /\ run_metadata = FALSE
    /\ run_result = "running"
    /\ results = <<>>
    /\ chains = <<>>
    /\ disk = [p \in 1..MaxClips |-> NoClip]

ComposeIdle == FFIdle /\ MPIdle /\ STIdle /\ OVIdle /\ PRIdle /\ RunIdle

-----------------------------------------------------------------------------
(* State after construction and a call of generate_scene_chain(blueprint) *)

CallState ==
    /\ pc = "call"
    /\ i = 0
    /\ retry_count = 0
    /\ scene_file = NoPath
    /\ previous_frame = NoFrame
    /\ scene_files = <<>>
    /\ result = [kind |-> "running", files |-> <<>>]
    /\ request = NoRequest
    /\ operation = NoAsset
    /\ attempts = 0
    /\ video_gcs_uri = NoAsset
    /\ files = [p \in 1..MaxScenes |-> NoAsset]
    /\ nattempts = 0
    /\ lastRequested = 0
    /\ extracted = [k \in 1..MaxScenes |-> "none"]
    /\ pollCause = "none"
    /\ pollSeen = {}
    /\ downloadTried = FALSE
    /\ abortCause = "none"
    /\ waits = <<>>
    /\ pollQueries = 0
    /\ poll_slept = 0
    /\ submitAnswer = "none"
    /\ orphaned = FALSE
    /\ chainAttempts = 0
    /\ pollAnswer = "none"

\* The chain generator when the call under study is a composition.
ChainIdle ==
    /\ scenes = <<>>
    /\ observePolls = FALSE
    /\ observeRemote = FALSE
    /\ observeAnswers = FALSE
    /\ pc = "idle"
    /\ i = 0
    /\ retry_count = 0
    /\ scene_file = NoPath
    /\ previous_frame = NoFrame
    /\ scene_files = <<>>
    /\ result = [kind |-> "running", files |-> <<>>]
    /\ request = NoRequest
    /\ operation = NoAsset
    /\ attempts = 0
    /\ video_gcs_uri = NoAsset
    /\ files = [p \in 1..MaxScenes |-> NoAsset]
    /\ nattempts = 0
    /\ lastRequested = 0
    /\ extracted = [k \in 1..MaxScenes |-> "none"]
    /\ pollCause = "none"
    /\ pollSeen = {}
    /\ downloadTried = FALSE
    /\ abortCause = "none"
    /\ waits = <<>>
    /\ pollQueries = 0
    /\ poll_slept = 0
    /\ submitAnswer = "none"
    /\ orphaned = FALSE
    /\ chainAttempts = 0
    /\ pollAnswer = "none"

InitChain ==
    /\ scenes \in Blueprints
    /\ observePolls = FALSE
    /\ observeRemote = FALSE
    /\ observeAnswers = FALSE
    /\ CallState
    /\ ComposeIdle

\* The same call, on the shorter blueprints, with every return of the
\* poller written down.
InitPoll ==
    /\ scenes \in {b \in Blueprints : Len(b) \in 1..PollScenes}
    /\ observePolls = TRUE
    /\ observeRemote = FALSE
    /\ observeAnswers = FALSE
    /\ CallState
    /\ ComposeIdle

NoScenes_Never(n) == FALSE

\* lines 97-98: scenes = blueprint.get('scene_breakdown', []); if not scenes
NoScenes(n) == n = 0

\* lines 97-108: an empty scene_breakdown raises, otherwise the loop starts
EnterChain ==
    /\ pc = "call"
    /\ IF NoScenes(N)
       THEN /\ result' = [kind |-> "ValueError", files |-> <<>>]
            /\ pc' = "done"
            /\ i' = i
       ELSE /\ result' = result
            /\ pc' = "scene"
            /\ i' = 1
    /\ previous_frame' = NoFrame
    /\ scene_files' = <<>>
    /\ UNCHANGED <<composeVars, scenes, observePolls, observeRemote, observeAnswers, pollAnswer, chainAttempts, submitAnswer, orphaned, retry_count, scene_file, request, operation,
                   attempts, video_gcs_uri, files, nattempts, lastRequested,
                   extracted, pollCause, pollSeen, downloadTried, abortCause,
                   waits, pollClock>>

\* lines 118-120
BeginScene ==
    /\ pc = "scene"
    /\ retry_count' = 0
    /\ scene_file' = NoPath
    /\ nattempts' = 0
    /\ waits' = <<>>
    /\ pc' = "while"
    /\ UNCHANGED <<composeVars, scenes, observePolls, observeRemote, observeAnswers, pollAnswer, chainAttempts, submitAnswer, orphaned, i, previous_frame, scene_files, result, request,
                   operation, attempts, video_gcs_uri, files, lastRequested,
                   extracted, pollCause, pollSeen, downloadTried, abortCause,
                   pollClock>>

LoopCondition_OffByOne(rc, sf) == rc < max_retries /\ sf = NoPath

\* line 122: while retry_count <= max_retries and not scene_file
LoopCondition(rc, sf) == rc <= max_retries /\ sf = NoPath

\* lines 122-125
WhileTest ==
    /\ pc = "while"
    /\ pc' = IF LoopCondition(retry_count, scene_file)
             THEN (IF retry_count > 0 THEN "sleep" ELSE "generate")
             ELSE "after"
    /\ submitAnswer' = "none"
    /\ UNCHANGED <<composeVars, scenes, observePolls, observeRemote, observeAnswers, pollAnswer, chainAttempts, orphaned, i, retry_count, scene_file, previous_frame,
                   scene_files, result, request, operation, attempts,
                   video_gcs_uri, files, nattempts, lastRequested, extracted,
                   pollCause, pollSeen, downloadTried, abortCause, waits,
                   pollClock>>

RetryWait_Linear(rc) == retry_wait * rc

\* line 125: the argument of time.sleep before retry rc
RetryWait(rc) == retry_wait

\* line 125: time.sleep(30)
RetrySleep ==
    /\ pc = "sleep"
    /\ waits' = Append(waits, RetryWait(retry_count))
    /\ pc' = "generate"
    /\ UNCHANGED <<composeVars, scenes, observePolls, observeRemote, observeAnswers, pollAnswer, chainAttempts, submitAnswer, orphaned, i, retry_count, scene_file, previous_frame,
                   scene_files, result, request, operation, attempts,
                   video_gcs_uri, files, nattempts, lastRequested, extracted,
                   pollCause, pollSeen, downloadTried, abortCause, pollClock>>

Returned_NoCount(r) ==
    /\ scene_file' = r
    /\ retry_count' = retry_count
    /\ pc' = "while"

\* _generate_single_scene returned r to lines 127-137
Returned(r) ==
    /\ scene_file' = r
    /\ retry_count' = IF r = NoPath THEN retry_count + 1 ELSE retry_count
    /\ pc' = "while"

ContinuityInput_FirstAttemptOnly(frame, rc) ==
    IF rc = 0 THEN frame ELSE NoFrame

\* lines 127-132: previous_frame=previous_frame, in every turn of the loop
ContinuityInput(frame, rc) == frame

Accepted_Always(answer) == TRUE

\* line 214: if response.status_code == 200
Accepted(answer) == answer = "accepted"

\* lines 127-132 and 167-212: build the payload and post it ("exception" is
\* any statement of the try block raising, requests.post included); lines
\* 241-250: a rejected or failed submission returns None
Submit ==
    /\ pc = "generate"
    /\ nattempts' = nattempts + 1
    /\ chainAttempts' = IF observeRemote THEN chainAttempts + 1 ELSE chainAttempts
    /\ downloadTried' = FALSE
    /\ pollAnswer' = "none"
    /\ request' = BuildRequest(i, scenes[i],
                               ContinuityInput(previous_frame, retry_count))
    /\ lastRequested' = IF i > lastRequested THEN i ELSE lastRequested
    /\ \E answer \in {"accepted", "rejected", "exception"} :
         /\ submitAnswer' = answer
         /\ IF answer # "exception" /\ Accepted(answer)
            THEN /\ operation' = [scene |-> i, dur |-> RequestDuration(scenes[i])]
                 /\ attempts' = 0
                 /\ pc' = "poll"
                 /\ UNCHANGED <<scene_file, retry_count>>
            ELSE /\ Returned(NoPath)
                 /\ UNCHANGED <<operation, attempts>>
    /\ UNCHANGED <<composeVars, scenes, observePolls, observeRemote, observeAnswers, orphaned, i, previous_frame, scene_files, result,
                   video_gcs_uri, files, extracted, pollCause, pollSeen,
                   abortCause, waits, pollClock>>

\* lines 316-318 and 325-326: the poller returns without having seen the
\* job done, and nothing cancels the job
Abandons(cause) == cause \in {"http_error", "timeout"}

\* the poller returns to line 222 (its local counter ends with the call)
PollReturns(cause) ==
    /\ video_gcs_uri' = PollReturn(cause, operation)
    /\ pollCause' = cause
    /\ pollSeen' = IF observePolls
                    THEN pollSeen \cup {<<cause, PollReturn(cause, operation)>>}
                    ELSE pollSeen
    /\ orphaned' = IF observeRemote /\ Abandons(cause) THEN TRUE ELSE orphaned
    /\ pc' = "polled"
    /\ attempts' = 0

PollSleep_NotAfterException(resp) ==
    IF resp = "exception" THEN 0 ELSE poll_sleep

\* lines 315 and 323: the time.sleep that follows a query the loop goes on
\* after (still generating, or an exception)
PollSleep(resp) == poll_sleep

PollGoesOn_AfterHttpError(resp) ==
    resp \in {"exception", "pending", "done_malformed", "http_error"}

\* lines 312-315 and 320-323: the answers after which the loop counts one
\* attempt, sleeps and queries again
PollGoesOn(resp) == resp \in {"exception", "pending", "done_malformed"}

\* lines 266-323: one status query
PollQuery ==
    /\ pc = "poll"
    /\ PollContinues(attempts)
    /\ pollQueries' = pollQueries + 1
    /\ \E resp \in PollResponses :
         /\ pollAnswer' = IF observeAnswers THEN resp ELSE pollAnswer
         /\ CASE PollGoesOn(resp) ->
                   /\ attempts' = attempts + 1
                   /\ poll_slept' = poll_slept + PollSleep(resp)
                   /\ UNCHANGED <<pc, video_gcs_uri, pollCause, pollSeen, orphaned>>
              [] resp = "http_error"  -> PollReturns("http_error") /\ UNCHANGED poll_slept
              [] resp = "done_uri"    -> PollReturns("asset") /\ UNCHANGED poll_slept
              [] resp = "done_no_uri" -> PollReturns("no_uri") /\ UNCHANGED poll_slept
              [] resp = "done_empty"  -> PollReturns("empty") /\ UNCHANGED poll_slept
    /\ UNCHANGED <<composeVars, scenes, observePolls, observeRemote, observeAnswers, chainAttempts, submitAnswer, i, retry_count, scene_file, previous_frame,
                   scene_files, result, request, operation, files, nattempts,
                   lastRequested, extracted, downloadTried, abortCause, waits>>

\* lines 325-326
PollTimeout ==
    /\ pc = "poll"
    /\ ~PollContinues(attempts)
    /\ PollReturns("timeout")
    /\ UNCHANGED <<composeVars, scenes, observePolls, observeRemote, observeAnswers, pollAnswer, chainAttempts, submitAnswer, i, retry_count, scene_file, previous_frame,
                   scene_files, result, request, operation, files, nattempts,
                   lastRequested, extracted, downloadTried, abortCause, waits,
                   pollClock>>

HasAsset_Always(uri) == TRUE

\* line 224: if video_gcs_uri
HasAsset(uri) == uri # NoAsset

DownloadFailed_DownloadAgain == UNCHANGED <<scene_file, retry_count, pc>>

\* lines 234-236: _download_from_gcs returned False, return None
DownloadFailed == Returned(NoPath)

\* lines 224-236: download the asset to scenes/scene_NN.mp4
Download ==
    /\ pc = "polled"
    /\ HasAsset(video_gcs_uri)
    /\ downloadTried' = TRUE
    /\ \E ok \in BOOLEAN :
         IF ok
         THEN /\ files' = [files EXCEPT ![SceneFilename(scenes[i])] = video_gcs_uri]
              /\ Returned(SceneFilename(scenes[i]))
         ELSE /\ files' = files
              /\ DownloadFailed
    /\ pollQueries' = 0
    /\ poll_slept' = 0
    /\ UNCHANGED <<composeVars, scenes, observePolls, observeRemote, observeAnswers, pollAnswer, chainAttempts, submitAnswer, orphaned, i, previous_frame, scene_files, result, request,
                   operation, attempts, video_gcs_uri, nattempts,
                   lastRequested, extracted, pollCause, pollSeen, abortCause,
                   waits>>

\* lines 237-239
NoVideo ==
    /\ pc = "polled"
    /\ ~HasAsset(video_gcs_uri)
    /\ Returned(NoPath)
    /\ pollQueries' = 0
    /\ poll_slept' = 0
    /\ UNCHANGED <<composeVars, scenes, observePolls, observeRemote, observeAnswers, pollAnswer, chainAttempts, submitAnswer, orphaned, i, previous_frame, scene_files, result, request,
                   operation, attempts, video_gcs_uri, files, nattempts,
                   lastRequested, extracted, pollCause, pollSeen,
                   downloadTried, abortCause, waits>>

ChainFailure_PartialList == [kind |-> "list", files |-> scene_files]

\* lines 154 and 158: return None, whatever scene_files holds by then
ChainFailure == [kind |-> "None", files |-> <<>>]

Appended_Prepend(list, path) == <<path>> \o list

\* line 140
Appended(list, path) == Append(list, path)

ExtractsFrame_Never(k, n) == FALSE

\* line 144: if i < len(scenes)
ExtractsFrame(k, n) == k < n

\* lines 139-144 and 151-154; without an extraction the for loop goes on
\* with the next scene, or ends and line 163 returns the list
AfterWhile ==
    /\ pc = "after"
    /\ IF scene_file # NoPath
       THEN /\ scene_files' = Appended(scene_files, scene_file)
            /\ IF ExtractsFrame(i, N)
               THEN /\ pc' = "extract"
                    /\ UNCHANGED <<i, result, abortCause>>
               ELSE IF i < N
               THEN /\ pc' = "scene"
                    /\ i' = i + 1
                    /\ UNCHANGED <<result, abortCause>>
               ELSE /\ pc' = "done"
                    /\ result' = [kind |-> "list",
                                  files |-> Appended(scene_files, scene_file)]
                    /\ UNCHANGED <<i, abortCause>>
       ELSE /\ pc' = "done"
            /\ result' = ChainFailure
            /\ abortCause' = "retries_exhausted"
            /\ UNCHANGED <<i, scene_files>>
    /\ UNCHANGED <<composeVars, scenes, observePolls, observeRemote, observeAnswers, pollAnswer, chainAttempts, submitAnswer, orphaned, retry_count, scene_file, previous_frame,
                   request, operation, attempts, video_gcs_uri, files,
                   nattempts, lastRequested, extracted, pollCause, pollSeen,
                   downloadTried, waits, pollClock>>

\* lines 145-150 with 328-383: "ok" is ffmpeg exiting 0 and the frame read
\* back; "fail" is a non-zero exit or an exception inside the try (both
\* return None); "raise" is frames_dir.mkdir (line 336, outside the try)
\* raising, which lines 156-158 turn into return None.
ExtractFrame ==
    /\ pc = "extract"
    /\ \E outcome \in {"ok", "fail", "raise"} :
         /\ extracted' = [extracted EXCEPT ![i] = outcome]
         /\ CASE outcome = "ok" ->
                   /\ previous_frame' = FrameOf(files[scene_file])
                   /\ i' = i + 1
                   /\ pc' = "scene"
                   /\ UNCHANGED <<result, abortCause>>
              [] outcome = "fail" ->
                   /\ previous_frame' = NoFrame
                   /\ i' = i + 1
                   /\ pc' = "scene"
                   /\ UNCHANGED <<result, abortCause>>
              [] outcome = "raise" ->
                   /\ pc' = "done"
                   /\ result' = ChainFailure
                   /\ abortCause' = "exception"
                   /\ UNCHANGED <<previous_frame, i>>
    /\ UNCHANGED <<composeVars, scenes, observePolls, observeRemote, observeAnswers, pollAnswer, chainAttempts, submitAnswer, orphaned, retry_count, scene_file, scene_files, request,
                   operation, attempts, video_gcs_uri, files, nattempts,
                   lastRequested, pollCause, pollSeen, downloadTried, waits,
                   pollClock>>

NextChain ==
    \/ EnterChain
    \/ BeginScene
    \/ WhileTest
    \/ RetrySleep
    \/ Submit
    \/ PollQuery
    \/ PollTimeout
    \/ Download
    \/ NoVideo
    \/ AfterWhile
    \/ ExtractFrame

Spec == InitChain /\ [][NextChain]_vars

SpecPoll == InitPoll /\ [][NextChain]_vars

\* The same call with the backend's jobs followed: a job the poller gave up
\* on (lines 316-318, 325-326) goes on running until the backend ends it.
InitRemote ==
    /\ scenes \in {b \in Blueprints : Len(b) \in 1..PollScenes}
    /\ observePolls = FALSE
    /\ observeRemote = TRUE
    /\ observeAnswers = FALSE
    /\ CallState
    /\ ComposeIdle

\* the backend finishes the jobs nobody polls any more
RemoteCompletes ==
    /\ orphaned
    /\ orphaned' = FALSE
    /\ UNCHANGED <<composeVars, scenes, pc, i, retry_count, scene_file,
                   previous_frame, scene_files, result, request, operation,
                   attempts, video_gcs_uri, files, nattempts, lastRequested,
                   extracted, pollCause, pollSeen, observePolls,
                   downloadTried, abortCause, waits, pollClock, submitAnswer,
                   observeRemote, chainAttempts, observeAnswers, pollAnswer>>

NextRemote ==
    \/ NextChain
    \/ RemoteCompletes

SpecRemote == InitRemote /\ [][NextRemote]_vars

\* The same call with the answer to every status query of the poller
\* written down.
InitAnswers ==
    /\ scenes \in {b \in Blueprints : Len(b) \in 1..PollScenes}
    /\ observePolls = FALSE
    /\ observeRemote = FALSE
    /\ observeAnswers = TRUE
    /\ CallState
    /\ ComposeIdle

SpecAnswers == InitAnswers /\ [][NextChain]_vars

-----------------------------------------------------------------------------
(* FFmpegPipeline._stitch_with_crossfades_only *)

Range(f) == {f[x] : x \in DOMAIN f}

\* line 95: offset = scene_duration - crossfade_duration
OffsetTwoClips == scene_duration - crossfade_duration

\* line 115: offset_in_current_video = scene_duration - crossfade_duration,
\* the same in every round k of the loop
OffsetInCurrentVideo(k) == scene_duration - crossfade_duration

\* line 103
TotalDuration(n) == n * scene_duration - (n - 1) * crossfade_duration

\* lines 96 and 118: xfade=transition=fade:duration=..:offset=..
Xfade(offset) == [duration |-> crossfade_duration, offset |-> offset]

\* lines 97 and 130: acrossfade=d=..:c1=tri:c2=tri
Acrossfade == [d |-> crossfade_duration]

\* lines 141-142 map [v] and [a]: with a single input no filter makes them
CrossfadeGraphValid(n) == n >= 2

InitFF ==
    /\ ff_pc = "normalize"
    /\ ff_n \in 0..MaxClips
    /\ ff_k = 0
    /\ ff_normalized = <<>>
    /\ ff_video = <<>>
    /\ ff_audio = <<>>
    /\ ff_temp = {}
    /\ ff_list = FALSE
    /\ ff_result = "running"
    /\ ff_fallback = FALSE
    /\ ff_calls = 1
    /\ ff_prev = NoFilters
    /\ MPIdle
    /\ STIdle
    /\ OVIdle
    /\ PRIdle
    /\ RunIdle
    /\ ChainIdle

\* lines 172-193: one round of _normalize_videos; a failed ffmpeg run makes
\* it return None, and lines 77-79 return None in turn
FFNormalizeOne ==
    /\ ff_pc = "normalize"
    /\ ff_k < ff_n
    /\ \E ok \in BOOLEAN :
         IF ok
         THEN /\ ff_normalized' = Append(ff_normalized, ff_k)
              /\ ff_temp' = ff_temp \cup {ff_k}
              /\ ff_k' = ff_k + 1
              /\ UNCHANGED <<ff_pc, ff_result>>
         ELSE /\ ff_result' = "None"
              /\ ff_pc' = "done"
              /\ UNCHANGED <<ff_normalized, ff_temp, ff_k>>
    /\ UNCHANGED <<ff_n, ff_video, ff_audio, ff_list, ff_fallback, ff_calls,
                   ff_prev, mpVars, stVars, ovVars, prVars, runVars, chainVars>>

\* lines 195, 76-93: the list is returned; an empty one counts as failure
FFNormalized ==
    /\ ff_pc = "normalize"
    /\ ff_k >= ff_n
    /\ IF ff_normalized = <<>>
       THEN /\ ff_result' = "None"
            /\ ff_pc' = "done"
            /\ UNCHANGED ff_k
       ELSE /\ ff_pc' = IF Len(ff_normalized) = 2 THEN "two" ELSE "video"
            /\ ff_k' = 1
            /\ UNCHANGED ff_result
    /\ UNCHANGED <<ff_n, ff_normalized, ff_video, ff_audio, ff_temp, ff_list,
                   ff_fallback, ff_calls, ff_prev, mpVars, stVars, ovVars, prVars, runVars, chainVars>>

\* lines 93-97
FFTwoClips ==
    /\ ff_pc = "two"
    /\ ff_video' = <<Xfade(OffsetTwoClips)>>
    /\ ff_audio' = <<Acrossfade>>
    /\ ff_pc' = "run"
    /\ UNCHANGED <<ff_n, ff_k, ff_normalized, ff_temp, ff_list, ff_result,
                   ff_fallback, ff_calls, ff_prev, mpVars, stVars, ovVars, prVars, runVars, chainVars>>

\* lines 109-119: for i in range(1, len(normalized_files))
FFVideoChain ==
    /\ ff_pc = "video"
    /\ IF ff_k < Len(ff_normalized)
       THEN /\ ff_video' = Append(ff_video, Xfade(OffsetInCurrentVideo(ff_k)))
            /\ ff_k' = ff_k + 1
            /\ UNCHANGED ff_pc
       ELSE /\ ff_pc' = "audio"
            /\ ff_k' = 1
            /\ UNCHANGED ff_video
    /\ UNCHANGED <<ff_n, ff_normalized, ff_audio, ff_temp, ff_list, ff_result,
                   ff_fallback, ff_calls, ff_prev, mpVars, stVars, ovVars, prVars, runVars, chainVars>>

\* lines 124-131
FFAudioChain ==
    /\ ff_pc = "audio"
    /\ IF ff_k < Len(ff_normalized)
       THEN /\ ff_audio' = Append(ff_audio, Acrossfade)
            /\ ff_k' = ff_k + 1
            /\ UNCHANGED ff_pc
       ELSE /\ ff_pc' = "run"
            /\ UNCHANGED <<ff_audio, ff_k>>
    /\ UNCHANGED <<ff_n, ff_normalized, ff_video, ff_temp, ff_list, ff_result,
                   ff_fallback, ff_calls, ff_prev, mpVars, stVars, ovVars, prVars, runVars, chainVars>>

\* lines 134-164: run the crossfade command; on success the normalized
\* files are removed, on failure the fallback is entered
FFRun ==
    /\ ff_pc = "run"
    /\ \E returncode \in (IF CrossfadeGraphValid(Len(ff_normalized)) THEN {0, 1} ELSE {1}) :
         IF returncode = 0
         THEN /\ ff_temp' = ff_temp \ Range(ff_normalized)
              /\ ff_result' = "crossfade"
              /\ ff_pc' = "done"
         ELSE /\ ff_pc' = "fallback"
              /\ UNCHANGED <<ff_temp, ff_result>>
    /\ UNCHANGED <<ff_n, ff_k, ff_normalized, ff_video, ff_audio, ff_list,
                   ff_fallback, ff_calls, ff_prev, mpVars, stVars, ovVars, prVars, runVars, chainVars>>

\* lines 197-220: _fallback_basic_concat writes scenes_concat.txt and runs
\* the concat command; the list file is removed on success only
FFFallbackConcat ==
    /\ ff_pc = "fallback"
    /\ ff_fallback' = TRUE
    /\ \E ok \in BOOLEAN :
         /\ ff_list' = ~ok
         /\ ff_result' = IF ok THEN "fallback" ELSE "None"
    /\ ff_pc' = "done"
    /\ UNCHANGED <<ff_n, ff_k, ff_normalized, ff_video, ff_audio, ff_temp,
                   ff_calls, ff_prev, mpVars, stVars, ovVars, prVars, runVars, chainVars>>

\* The caller composes the same clip list again on the same object: the
\* locals are new, temp_dir is as the earlier call left it.
FFAgain ==
    /\ ff_pc = "done"
    /\ ff_calls < MaxCalls
    /\ ff_calls' = ff_calls + 1
    /\ ff_prev' = [n |-> IF ff_result \in {"crossfade", "fallback"} THEN ff_n ELSE 0,
                   video |-> ff_video, audio |-> ff_audio]
    /\ ff_pc' = "normalize"
    /\ ff_k' = 0
    /\ ff_normalized' = <<>>
    /\ ff_video' = <<>>
    /\ ff_audio' = <<>>
    /\ ff_result' = "running"
    /\ ff_fallback' = FALSE
    /\ UNCHANGED <<ff_n, ff_temp, ff_list, mpVars, stVars, ovVars, prVars, runVars, chainVars>>

NextFF ==
    \/ FFNormalizeOne
    \/ FFNormalized
    \/ FFTwoClips
    \/ FFVideoChain
    \/ FFAudioChain
    \/ FFRun
    \/ FFFallbackConcat
    \/ FFAgain

(* What ffmpeg makes of the filter graph, for inputs of ClipLength each.   *)
(* xfade starts its transition at `offset' of its first input and ends     *)
(* with its second input; acrossfade overlaps the last d of its first      *)
(* input with the start of its second.                                     *)

\* line 91: "Each VEO scene is 8 seconds"
ClipLength == scene_duration

\* timeline position at which video transition j begins
VideoFadeStart(video, j) == video[j].offset

\* length of the video stream after transition j
VideoLength(video, j) == IF j = 0 THEN ClipLength ELSE video[j].offset + ClipLength

RECURSIVE AudioLength(_, _)
\* length of the audio stream after transition j
AudioLength(audio, j) ==
    IF j = 0 THEN ClipLength
    ELSE AudioLength(audio, j - 1) + ClipLength - audio[j].d

\* timeline position at which audio transition j begins
AudioFadeStart(audio, j) == AudioLength(audio, j - 1) - audio[j].d

-----------------------------------------------------------------------------
(* MoviePyCrossfadePipeline.crossfade_scenes *)

\* clip.duration of the scene files, and the crossfade_duration argument
DurationTenths == {3, 60, 80}

CrossfadeTenths == {5, 10}

ClipLists == UNION { [1..n -> DurationTenths] : n \in 0..MaxClips }

InitialStart_Stale(left) == left

\* line 101: current_start = 0
InitialStart(left) == 0

NextStart_NoOverlap(start, d, c) == start + d

\* lines 107 and 112: current_start += clip.duration - crossfade_duration
NextStart(start, d, c) == start + d - c

RECURSIVE SumOf(_)
\* sum(clip.duration for clip in clips)
SumOf(ds) == IF ds = <<>> THEN 0 ELSE ds[1] + SumOf(Tail(ds))

Max(S) == CHOOSE x \in S : \A y \in S : y <= x

\* CompositeVideoClip(timeline_clips).duration: the latest end of a clip
CompositeDuration(starts, ds) == Max({starts[k] + ds[k] : k \in DOMAIN starts})

InitMP ==
    /\ mp_pc = "call"
    /\ mp_durs \in ClipLists
    /\ mp_c \in CrossfadeTenths
    /\ mp_k = 0
    /\ current_start = 0
    /\ timeline_clips = <<>>
    /\ mp_duration = 0
    /\ mp_result = "running"
    /\ mp_calls = 1
    /\ mp_prev = NoTimeline
    /\ mp_effects = <<>>
    /\ mp_fallback = FALSE
    /\ FFIdle
    /\ STIdle
    /\ OVIdle
    /\ PRIdle
    /\ RunIdle
    /\ ChainIdle

\* lines 50-51
MPCall ==
    /\ mp_pc = "call"
    /\ IF mp_durs = <<>>
       THEN /\ mp_result' = "ValueError"
            /\ mp_pc' = "done"
       ELSE /\ mp_pc' = "load"
            /\ UNCHANGED mp_result
    /\ UNCHANGED <<mp_durs, mp_c, mp_k, current_start, timeline_clips,
                   mp_duration, mp_calls, mp_prev, mp_effects, mp_fallback, ffVars, stVars, ovVars, prVars, runVars, chainVars>>

IsSingle_Never(n) == FALSE

\* line 71: if len(clips) == 1
IsSingle(n) == n = 1

\* lines 79-94: the fades put on clip k of n
Effects(k, n) ==
    IF k = 1 THEN {"FadeOut"}
    ELSE IF k = n THEN {"FadeIn"}
    ELSE {"FadeIn", "FadeOut"}

\* lines 64-75: VideoFileClip of every scene file; an exception is caught
\* at lines 148-152 and None is returned
MPLoad ==
    /\ mp_pc = "load"
    /\ \E ok \in BOOLEAN :
         IF ok
         THEN /\ mp_pc' = IF IsSingle(Len(mp_durs)) THEN "single" ELSE "effects"
              /\ UNCHANGED mp_result
         ELSE /\ mp_pc' = "done"
              /\ mp_result' = "None"
    /\ UNCHANGED <<mp_durs, mp_c, mp_k, current_start, timeline_clips,
                   mp_duration, mp_calls, mp_prev, mp_effects, mp_fallback, ffVars, stVars, ovVars, prVars, runVars, chainVars>>

\* lines 71-74: final_clip = clips[0], a clip that starts at 0
MPSingle ==
    /\ mp_pc = "single"
    /\ timeline_clips' = <<0>>
    /\ mp_duration' = mp_durs[1]
    /\ mp_effects' = <<{}>>
    /\ mp_pc' = "export"
    /\ UNCHANGED <<mp_durs, mp_c, mp_k, current_start, mp_result, mp_calls,
                   mp_prev, mp_fallback, ffVars, stVars, ovVars, prVars, runVars, chainVars>>

\* lines 77-101: the fades, then timeline_clips = [] and current_start = 0
MPBeginTimeline ==
    /\ mp_pc = "effects"
    /\ timeline_clips' = <<>>
    /\ current_start' = InitialStart(current_start)
    /\ mp_effects' = [k \in 1..Len(mp_durs) |-> Effects(k, Len(mp_durs))]
    /\ mp_k' = 1
    /\ mp_pc' = "timeline"
    /\ UNCHANGED <<mp_durs, mp_c, mp_duration, mp_result, mp_calls, mp_prev,
                   mp_fallback, ffVars, stVars, ovVars, prVars, runVars, chainVars>>

Advances_FirstOnly(k, n) == k = 1

\* lines 104-112: current_start moves on after the first clip (i == 0) and
\* after every clip but the last (i < len(crossfaded_clips) - 1)
Advances(k, n) == k = 1 \/ k < n

\* lines 103-112: one round of the timeline loop
MPPlaceClip ==
    /\ mp_pc = "timeline"
    /\ mp_k <= Len(mp_durs)
    /\ timeline_clips' = Append(timeline_clips, current_start)
    /\ current_start' =
          IF Advances(mp_k, Len(mp_durs))
          THEN NextStart(current_start, mp_durs[mp_k], mp_c)
          ELSE current_start
    /\ mp_k' = mp_k + 1
    /\ UNCHANGED <<mp_pc, mp_durs, mp_c, mp_duration, mp_result, mp_calls,
                   mp_prev, mp_effects, mp_fallback, ffVars, stVars, ovVars, prVars, runVars, chainVars>>

\* line 115
MPComposite ==
    /\ mp_pc = "timeline"
    /\ mp_k > Len(mp_durs)
    /\ mp_duration' = CompositeDuration(timeline_clips, mp_durs)
    /\ mp_pc' = "export"
    /\ UNCHANGED <<mp_durs, mp_c, mp_k, current_start, timeline_clips,
                   mp_result, mp_calls, mp_prev, mp_effects, mp_fallback, ffVars, stVars, ovVars, prVars, runVars, chainVars>>

\* lines 121-152: captions and write_videofile; an exception returns None
MPExport ==
    /\ mp_pc = "export"
    /\ \E ok \in BOOLEAN : mp_result' = IF ok THEN "output" ELSE "None"
    /\ mp_pc' = "done"
    /\ UNCHANGED <<mp_durs, mp_c, mp_k, current_start, timeline_clips,
                   mp_duration, mp_calls, mp_prev, mp_effects, mp_fallback, ffVars, stVars, ovVars, prVars, runVars, chainVars>>

\* The caller composes the same clip list again with the same
\* crossfade_duration on the same object.
MPAgain ==
    /\ mp_pc = "done"
    /\ mp_calls < MaxCalls
    /\ mp_calls' = mp_calls + 1
    /\ mp_prev' = IF mp_result = "output"
                  THEN [starts |-> timeline_clips, duration |-> mp_duration]
                  ELSE NoTimeline
    /\ mp_pc' = "call"
    /\ mp_result' = "running"
    /\ UNCHANGED <<mp_durs, mp_c, mp_k, current_start, timeline_clips,
                   mp_duration, mp_effects, mp_fallback, ffVars, stVars, ovVars, prVars, runVars, chainVars>>

NextMP ==
    \/ MPCall
    \/ MPLoad
    \/ MPSingle
    \/ MPBeginTimeline
    \/ MPPlaceClip
    \/ MPComposite
    \/ MPExport
    \/ MPAgain

-----------------------------------------------------------------------------
(* FFmpegPipeline.stitch_scenes *)

InitStitch ==
    /\ st_pc = "call"
    /\ st_n \in 0..MaxClips
    /\ st_tooling \in BOOLEAN
    /\ st_result = "running"
    /\ st_error = "none"
    /\ st_output = NoOutput
    /\ FFIdle
    /\ MPIdle
    /\ OVIdle
    /\ PRIdle
    /\ RunIdle
    /\ ChainIdle

\* lines 42-55
StitchCall ==
    /\ st_pc = "call"
    /\ IF st_n = 0
       THEN /\ st_result' = "ValueError"
            /\ st_pc' = "done"
       ELSE /\ st_pc' = "try"
            /\ UNCHANGED st_result
    /\ UNCHANGED <<st_n, st_tooling, st_error, st_output, ffVars, mpVars,
                   ovVars, prVars, runVars, chainVars>>

\* line 58: if len(scene_files) == 1
StitchIsSingle(n) == n = 1

\* lines 58-62 and 67-69: shutil.copy2 of the only file to output_path
StitchCopy ==
    /\ st_pc = "try"
    /\ StitchIsSingle(st_n)
    /\ \E copied \in BOOLEAN :
         IF copied
         THEN /\ st_output' = [clips |-> <<1>>, starts |-> <<0>>, steps |-> {}]
              /\ st_result' = "output"
              /\ UNCHANGED st_error
         ELSE /\ st_result' = "None"
              /\ st_error' = "OSError"
              /\ UNCHANGED st_output
    /\ st_pc' = "done"
    /\ UNCHANGED <<st_n, st_tooling, ffVars, mpVars, ovVars, prVars, runVars, chainVars>>

\* lines 65 and 67-69: FFmpegPipeline defines no _simple_concat_only, so
\* looking the method up raises AttributeError before any tool is run; the
\* except clause prints it and returns None
StitchConcat ==
    /\ st_pc = "try"
    /\ ~StitchIsSingle(st_n)
    /\ st_error' = "AttributeError"
    /\ st_result' = "None"
    /\ st_pc' = "done"
    /\ UNCHANGED <<st_n, st_tooling, st_output, ffVars, mpVars, ovVars, prVars, runVars, chainVars>>

NextStitch ==
    \/ StitchCall
    \/ StitchCopy
    \/ StitchConcat

InitCompose == InitFF \/ InitMP \/ InitStitch

NextCompose == NextFF \/ NextMP \/ NextStitch

SpecCompose == InitCompose /\ [][NextCompose]_vars

\* One call of any of the entry points that take a list: the chain on a
\* blueprint of up to PollScenes scenes, or one of the compositions.
InitCalls ==
    \/ /\ scenes \in {b \in Blueprints : Len(b) <= PollScenes}
       /\ observePolls = FALSE
       /\ observeRemote = FALSE
       /\ observeAnswers = FALSE
       /\ CallState
       /\ ComposeIdle
    \/ InitCompose

NextCalls == NextChain \/ NextCompose

SpecCalls == InitCalls /\ [][NextCalls]_vars

-----------------------------------------------------------------------------
(* The caption overlay: MoviePyPipeline._add_text_overlays_moviepy and     *)
(* MoviePyCrossfadePipeline.add_text_overlays.  Times are seconds, sizes   *)
(* pixels, positions hundredths of a pixel (x_pos and y_pos are floats).   *)

OverlayClasses == {"MoviePyPipeline", "MoviePyCrossfadePipeline"}

VideoSizes == {<<1280, 720>>, <<720, 1280>>, <<320, 240>>}

\* self.text_styles: the font_size of every preset
TextStyles == [default |-> 48, emphasis |-> 52, large |-> 56]

\* a caption record without the key 't_end'
NoTime == -1

\* caption.get('t_end', start_time + 2)
DefaultCaptionSeconds == 2

\* texts are sequences of characters
Texts == {<<>>, <<" ">>, <<" ", "a", " ">>}

Windows == {<<0, 2>>, <<1, 3>>, <<2, 2>>, <<3, 1>>}

CaptionRecords ==
    { [t_start |-> w[1], t_end |-> w[2], text |-> t, emphasis_tokens |-> e] :
        w \in Windows, t \in Texts, e \in {<<>>, <<"a">>} }
    \cup { [t_start |-> 1, t_end |-> NoTime, text |-> <<"a">>, emphasis_tokens |-> <<>>] }

CaptionLists == UNION { [1..n -> CaptionRecords] : n \in 0..MaxCaptions }

RECURSIVE LStrip(_)
LStrip(t) == IF t # <<>> /\ Head(t) = " " THEN LStrip(Tail(t)) ELSE t

RECURSIVE RStrip(_)
RStrip(t) ==
    IF t # <<>> /\ t[Len(t)] = " " THEN RStrip(SubSeq(t, 1, Len(t) - 1)) ELSE t

\* caption.get('text', '').strip()
Strip(t) == RStrip(LStrip(t))

\* end_time = caption.get('t_end', start_time + 2)
EndTime(caption) ==
    IF caption.t_end = NoTime
    THEN caption.t_start + DefaultCaptionSeconds
    ELSE caption.t_end

Duration_EndTime(start_time, end_time) == end_time

\* duration = end_time - start_time
Duration(start_time, end_time) == end_time - start_time

SkipsDuration_NegativeOnly(duration) == duration < 0

\* if duration <= 0: continue
SkipsDuration(duration) == duration <= 0

\* if not text: continue / if duration <= 0: continue
Skipped(caption) ==
    \/ Strip(caption.text) = <<>>
    \/ SkipsDuration(Duration(caption.t_start, EndTime(caption)))

\* style_name = 'emphasis' if emphasis_tokens else 'default'
StyleName(caption) == IF caption.emphasis_tokens # <<>> THEN "emphasis" ELSE "default"

\* canvas_width = int(video_width * 0.95), or int(video_size[0] * 0.8)
CanvasWidth(class, video_width) ==
    IF class = "MoviePyCrossfadePipeline"
    THEN (video_width * 95) \div 100
    ELSE (video_width * 80) \div 100

\* canvas_height = style['font_size'] * 6, or style['font_size'] * 2
CanvasHeight(class, font_size) ==
    IF class = "MoviePyCrossfadePipeline" THEN font_size * 6 ELSE font_size * 2

PosScale == 100

Clamp(lo, hi, v) == IF v < lo THEN lo ELSE IF v > hi THEN hi ELSE v

\* x_pos = (video_width - text_width) / 2
XPos(video_width, text_width) == (PosScale * (video_width - text_width)) \div 2

\* y_pos = video_height * 0.8 - text_height / 2 (0.85 in MoviePyPipeline);
\* max_y = max(0, int(video_height - text_height));
\* y_pos = max(0, min(max_y, y_pos))
YPos(class, video_height, text_height) ==
    LET max_y == IF video_height - text_height > 0 THEN video_height - text_height ELSE 0
        y_pos == IF class = "MoviePyCrossfadePipeline"
                 THEN 80 * video_height - (PosScale * text_height) \div 2
                 ELSE 85 * video_height - (PosScale * text_height) \div 2
    IN  Clamp(0, PosScale * max_y, y_pos)

\* The TextClip of caption number k: method='caption' with size=(canvas_width,
\* canvas_height) makes an image of exactly that size, so txt_clip.w and
\* txt_clip.h are the canvas; then with_duration, with_start, with_position.
TextLayer(class, size, k, caption) ==
    LET text_width  == CanvasWidth(class, size[1])
        text_height == CanvasHeight(class, TextStyles[StyleName(caption)])
    IN  [caption  |-> k,
         start    |-> caption.t_start,
         duration |-> Duration(caption.t_start, EndTime(caption)),
         w        |-> text_width,
         h        |-> text_height,
         x        |-> XPos(size[1], text_width),
         y        |-> YPos(class, size[2], text_height)]

InitOV ==
    /\ ov_pc = "call"
    /\ ov_class \in OverlayClasses
    /\ video_size \in VideoSizes
    /\ captions \in CaptionLists
    /\ ov_k = 0
    /\ text_clips = <<>>
    /\ ov_raised = {}
    /\ ov_result = "running"
    /\ FFIdle
    /\ MPIdle
    /\ STIdle
    /\ PRIdle
    /\ RunIdle
    /\ ChainIdle

\* lines 156-165: no captions returns the input clip
OverlayCall ==
    /\ ov_pc = "call"
    /\ IF captions = <<>>
       THEN /\ ov_result' = "video_clip"
            /\ ov_pc' = "done"
            /\ UNCHANGED ov_k
       ELSE /\ ov_pc' = "loop"
            /\ ov_k' = 1
            /\ UNCHANGED ov_result
    /\ text_clips' = <<>>
    /\ UNCHANGED <<ov_class, video_size, captions, ov_raised, ffVars, mpVars,
                   stVars, prVars, runVars, chainVars>>

\* lines 167-178: a caption without text or with no time to show is passed over
OverlaySkip ==
    /\ ov_pc = "loop"
    /\ ov_k <= Len(captions)
    /\ Skipped(captions[ov_k])
    /\ ov_k' = ov_k + 1
    /\ UNCHANGED <<ov_pc, ov_class, video_size, captions, text_clips, ov_raised,
                   ov_result, ffVars, mpVars, stVars, prVars, runVars, chainVars>>

AfterRenderError_DropsLayers(clips) == <<>>

\* lines 232-236: the except clause prints and continues; text_clips keeps
\* what it holds
AfterRenderError(clips) == clips

\* lines 180-236: the try block makes the layer and appends it, or raises
OverlayRender ==
    /\ ov_pc = "loop"
    /\ ov_k <= Len(captions)
    /\ ~Skipped(captions[ov_k])
    /\ \E raised \in BOOLEAN :
         IF raised
         THEN /\ text_clips' = AfterRenderError(text_clips)
              /\ ov_raised' = ov_raised \cup {ov_k}
         ELSE /\ text_clips' = Append(text_clips,
                    TextLayer(ov_class, video_size, ov_k, captions[ov_k]))
              /\ UNCHANGED ov_raised
    /\ ov_k' = ov_k + 1
    /\ UNCHANGED <<ov_pc, ov_class, video_size, captions, ov_result, ffVars,
                   mpVars, stVars, prVars, runVars, chainVars>>

\* lines 238-246
OverlayComposite ==
    /\ ov_pc = "loop"
    /\ ov_k > Len(captions)
    /\ ov_result' = IF text_clips # <<>> THEN "composite" ELSE "video_clip"
    /\ ov_pc' = "done"
    /\ UNCHANGED <<ov_class, video_size, captions, ov_k, text_clips, ov_raised,
                   ffVars, mpVars, stVars, prVars, runVars, chainVars>>

NextOV ==
    \/ OverlayCall
    \/ OverlaySkip
    \/ OverlayRender
    \/ OverlayComposite

SpecOverlay == InitOV /\ [][NextOV]_vars

-----------------------------------------------------------------------------
(* VEOChainGenerator._build_complete_prompt and its use at lines 173-190 *)

\* t_start of the script items Init draws from: scene boundaries and times
\* inside scenes
ScriptTimes == {0, 5, 8, 13}

ScriptItem(t) == [t_start |-> t]

Scripts ==
    UNION { [1..n -> {ScriptItem(t) : t \in ScriptTimes}] : n \in 0..MaxScript }

RECURSIVE SumDurations(_)
\* sum(s['duration_sec'] for s in ...)
SumDurations(ss) ==
    IF ss = <<>> THEN 0
    ELSE Head(ss).duration_sec + SumDurations(Tail(ss))

\* lines 45 and 49: the durations of scene_breakdown[:scene_number]
SceneEndTime(breakdown, scene) ==
    SumDurations(SubSeq(breakdown, 1, Min(scene.scene_number, Len(breakdown))))

SceneStartTime_Zero(breakdown, scene) == 0

\* lines 46 and 50
SceneStartTime(breakdown, scene) ==
    SceneEndTime(breakdown, scene) - scene.duration_sec

InWindow_Closed(item, start, end) ==
    item.t_start >= start /\ item.t_start <= end

\* lines 55-56
InWindow(item, start, end) ==
    item.t_start >= start /\ item.t_start < end

PromptFor_NoFallback(k, lines) ==
    IF lines = <<>> THEN NoPrompt ELSE [visual |-> k, dialogue |-> lines]

\* lines 59-78 and 173-175: None without script lines, and then the
\* scene's own prompt_text is sent
PromptFor(k, lines) == [visual |-> k, dialogue |-> lines]

InitPrompt ==
    /\ pr_scenes \in {b \in Blueprints : Len(b) >= 1}
    /\ pr_script \in Scripts
    /\ pr_blueprint \in BOOLEAN
    /\ pr_pc = "call"
    /\ pr_k = 0
    /\ scene_start_time = 0
    /\ scene_end_time = 0
    /\ pr_j = 0
    /\ script_lines = <<>>
    /\ pr_prompt = NoPrompt
    /\ FFIdle
    /\ MPIdle
    /\ STIdle
    /\ OVIdle
    /\ RunIdle
    /\ ChainIdle

\* lines 42-52, for any scene of the blueprint; without a blueprint lines
\* 42-43 return None and the caller goes on at lines 174-175
PromptCall ==
    /\ pr_pc = "call"
    /\ \E k \in 1..Len(pr_scenes) :
         /\ pr_k' = k
         /\ IF pr_blueprint
            THEN /\ scene_end_time' = SceneEndTime(pr_scenes, pr_scenes[k])
                 /\ scene_start_time' = SceneStartTime(pr_scenes, pr_scenes[k])
                 /\ pr_j' = 1
                 /\ pr_pc' = "scan"
                 /\ UNCHANGED pr_prompt
            ELSE /\ pr_prompt' = PromptFor(k, <<>>)
                 /\ pr_pc' = "done"
                 /\ UNCHANGED <<scene_end_time, scene_start_time, pr_j>>
    /\ script_lines' = <<>>
    /\ UNCHANGED <<pr_scenes, pr_script, pr_blueprint, ffVars, mpVars,
                   stVars, ovVars, runVars, chainVars>>

\* lines 54-57: one turn of the for loop over the script
PromptScan ==
    /\ pr_pc = "scan"
    /\ pr_j <= Len(pr_script)
    /\ script_lines' =
          IF InWindow(pr_script[pr_j], scene_start_time, scene_end_time)
          THEN Append(script_lines, pr_j)
          ELSE script_lines
    /\ pr_j' = pr_j + 1
    /\ UNCHANGED <<pr_pc, pr_scenes, pr_script, pr_blueprint, pr_k, scene_start_time,
                   scene_end_time, pr_prompt, ffVars, mpVars, stVars, ovVars,
                   runVars, chainVars>>

\* lines 59-78, and lines 173-175 and 190 of the caller
PromptReturn ==
    /\ pr_pc = "scan"
    /\ pr_j > Len(pr_script)
    /\ pr_prompt' = PromptFor(pr_k, script_lines)
    /\ pr_pc' = "done"
    /\ UNCHANGED <<pr_scenes, pr_script, pr_blueprint, pr_k, scene_start_time,
                   scene_end_time, pr_j, script_lines, ffVars, mpVars, stVars,
                   ovVars, runVars, chainVars>>

NextPrompt ==
    \/ PromptCall
    \/ PromptScan
    \/ PromptReturn

SpecPrompt == InitPrompt /\ [][NextPrompt]_vars

-----------------------------------------------------------------------------
(* VideoOrchestrator.batch_generate_videos with generate_complete_video    *)
(* (src/scripts/video_orchestrator.py), and run_complete_pipeline          *)
(* (src/scripts/complete_video_pipeline.py).  The chain and the composition *)
(* are one step each here; a theme stands for the blueprint made for it.   *)

\* batch_generate_videos(themes, test_mode=True, max_videos=3)
max_videos == 3

\* line 178 of run_complete_pipeline: len(scene_files) != 5
ExpectedScenes == 5

ThemeLists == UNION { [1..m -> 0..MaxBatchScenes] : m \in 0..MaxVideos }

\* themes[:max_videos]
BatchSize == Min(Len(themes), max_videos)

\* the state of the locals when generate_complete_video or
\* run_complete_pipeline is entered
RunEntered ==
    /\ run_scene_files' = <<>>
    /\ run_stages' = <<>>
    /\ run_failed' = "none"
    /\ run_thumbnail' = "none"
    /\ run_metadata' = FALSE
    /\ run_result' = "running"

InitRun ==
    /\ \/ /\ run_fn = "batch_generate_videos"
          /\ themes \in ThemeLists
          /\ test_mode \in BOOLEAN
          /\ run_pc = "batch"
          /\ run_k = 0
       \/ /\ run_fn = "run_complete_pipeline"
          /\ themes \in [1..1 -> 0..MaxClips]
          /\ test_mode = FALSE
          /\ run_pc = "blueprint"
          /\ run_k = 1
    /\ run_scene_files = <<>>
    /\ run_stages = <<>>
    /\ run_failed = "none"
    /\ run_thumbnail = "none"
    /\ run_metadata = FALSE
    /\ run_result = "running"
    /\ results = <<>>
    /\ chains = <<>>
    /\ disk = [p \in 1..MaxClips |-> NoClip]
    /\ FFIdle
    /\ MPIdle
    /\ STIdle
    /\ OVIdle
    /\ PRIdle
    /\ ChainIdle

\* video_orchestrator.py lines 130-134 and 147-150: the for loop over
\* themes[:max_videos] calls generate_complete_video, then returns results
BatchNext ==
    /\ run_pc = "batch"
    /\ IF run_k < BatchSize
       THEN /\ run_k' = run_k + 1
            /\ RunEntered
            /\ run_pc' = "blueprint"
       ELSE /\ run_pc' = "done"
            /\ UNCHANGED <<run_k, run_scene_files, run_stages, run_failed,
                           run_thumbnail, run_metadata, run_result>>
    /\ UNCHANGED <<run_fn, themes, test_mode, results, chains, disk, ffVars,
                   mpVars, stVars, ovVars, prVars, chainVars>>

\* video_orchestrator.py lines 36-65, complete_video_pipeline.py lines
\* 46-157: the blueprint is made ("made" is false when it could not be made
\* or saved); the orchestrator stops on a blueprint without scenes and in
\* test mode
RunBlueprint ==
    /\ run_pc = "blueprint"
    /\ \E made \in BOOLEAN :
         IF ~made
         THEN run_result' = "None" /\ run_pc' = "returned"
         ELSE IF run_fn = "batch_generate_videos" /\ themes[run_k] = 0
         THEN run_result' = "None" /\ run_pc' = "returned"
         ELSE IF run_fn = "batch_generate_videos" /\ test_mode
         THEN run_result' = "blueprint_only" /\ run_pc' = "returned"
         ELSE run_result' = run_result /\ run_pc' = "chain"
    /\ UNCHANGED <<run_fn, themes, test_mode, run_k, run_scene_files,
                   run_stages, run_failed, run_thumbnail, run_metadata,
                   results, chains, disk, ffVars, mpVars, stVars, ovVars,
                   prVars, chainVars>>

ChainFailed_Never(fn, list) == FALSE

ChainFailed_EmptyOnly(fn, list) == list = <<>>

\* video_orchestrator.py line 75: if not scene_files;
\* complete_video_pipeline.py line 178: if not scene_files or
\* len(scene_files) != 5
ChainFailed(fn, list) ==
    \/ list = <<>>
    \/ fn = "run_complete_pipeline" /\ Len(list) # ExpectedScenes

\* what generate_scene_chain returns after good scenes of n were generated:
\* the names of all its files (SceneFilename), or None
ChainReturn(n, good) ==
    IF good = n THEN [p \in 1..n |-> SceneFilename(Scene(p, 0))] ELSE <<>>

\* video_orchestrator.py lines 67-79, complete_video_pipeline.py lines
\* 159-184: generate_scene_chain on the generator's output_dir.  The chain
\* stores the clip of scene p in scenes/scene_pp.mp4 (veo_chain_generator.py
\* lines 226-231) for every scene it gets through, and returns the list or
\* None; without scenes it raises ValueError, which the orchestrator turns
\* into None (lines 118-120) and run_complete_pipeline lets through.
RunChain ==
    /\ run_pc = "chain"
    /\ run_stages' = Append(run_stages, "chain")
    /\ \E good \in 0..themes[run_k] :
         LET n == themes[run_k]
             list == ChainReturn(n, good)
         IN  /\ disk' = [p \in 1..MaxClips |->
                           IF p <= good THEN [video |-> run_k, scene |-> p]
                           ELSE disk[p]]
             /\ chains' = IF list # <<>>
                          THEN Append(chains, [video |-> run_k, files |-> list])
                          ELSE chains
             /\ run_scene_files' = list
             /\ run_failed' = IF list = <<>> \/ ChainFailed(run_fn, list)
                              THEN "chain" ELSE "none"
             /\ IF n = 0 /\ run_fn = "run_complete_pipeline"
                THEN run_result' = "raised" /\ run_pc' = "returned"
                ELSE IF ChainFailed(run_fn, list)
                THEN run_result' = "None" /\ run_pc' = "returned"
                ELSE run_result' = run_result /\ run_pc' = "stitch"
    /\ UNCHANGED <<run_fn, themes, test_mode, run_k, run_thumbnail,
                   run_metadata, results, ffVars, mpVars, stVars, ovVars,
                   prVars, chainVars>>

\* FFmpegPipeline.stitch_scenes(scene_files, blueprint) as modelled by
\* StitchCall, StitchCopy and StitchConcat, and FFmpegPipeline(...) of
\* complete_video_pipeline.py line 190, which raises without ffmpeg
StitchOutcomes(fn, m) ==
    (IF m = 0 THEN {"ValueError"}
     ELSE IF StitchIsSingle(m) THEN {"output", "None"}
     ELSE {"None"})
    \cup (IF fn = "run_complete_pipeline" THEN {"RuntimeError"} ELSE {})

\* video_orchestrator.py lines 81-92, complete_video_pipeline.py lines
\* 186-199
RunStitch ==
    /\ run_pc = "stitch"
    /\ run_stages' = Append(run_stages, "composition")
    /\ \E outcome \in StitchOutcomes(run_fn, Len(run_scene_files)) :
         IF outcome = "output"
         THEN /\ run_pc' = "finish"
              /\ UNCHANGED <<run_failed, run_result>>
         ELSE /\ run_failed' = IF run_failed = "none" THEN "composition"
                               ELSE run_failed
              /\ run_result' = IF outcome \in {"ValueError", "RuntimeError"}
                                  /\ run_fn = "run_complete_pipeline"
                               THEN "raised" ELSE "None"
              /\ run_pc' = "returned"
    /\ UNCHANGED <<run_fn, themes, test_mode, run_k, run_scene_files,
                   run_thumbnail, run_metadata, results, chains, disk, ffVars,
                   mpVars, stVars, ovVars, prVars, chainVars>>

\* video_orchestrator.py lines 94-116: the thumbnail, then the result with
\* its metadata.  complete_video_pipeline.py lines 201-235: the caption
\* overlay, which ends the run when it returns None, then the thumbnail and
\* metadata.json.  A thumbnail that could not be made is None in both.
RunFinish ==
    /\ run_pc = "finish"
    /\ \E overlaid \in BOOLEAN, thumbnail \in {"created", "None"} :
         IF run_fn = "run_complete_pipeline" /\ ~overlaid
         THEN /\ run_stages' = Append(run_stages, "overlay")
              /\ run_failed' = "overlay"
              /\ run_result' = "None"
              /\ UNCHANGED <<run_thumbnail, run_metadata>>
         ELSE /\ run_stages' =
                    IF run_fn = "run_complete_pipeline"
                    THEN run_stages \o <<"overlay", "metadata">>
                    ELSE Append(run_stages, "metadata")
              /\ run_thumbnail' = thumbnail
              /\ run_metadata' = TRUE
              /\ run_result' = "complete"
              /\ UNCHANGED run_failed
    /\ run_pc' = "returned"
    /\ UNCHANGED <<run_fn, themes, test_mode, run_k, run_scene_files, results,
                   chains, disk, ffVars, mpVars, stVars, ovVars, prVars,
                   chainVars>>

\* video_orchestrator.py lines 134-145: a result that is not None is
\* appended to results; run_complete_pipeline has returned
RunReturn ==
    /\ run_pc = "returned"
    /\ IF run_fn = "batch_generate_videos"
       THEN /\ results' =
                  IF run_result \in {"blueprint_only", "complete"}
                  THEN Append(results, [video |-> run_k,
                                        status |-> run_result,
                                        scene_files |-> run_scene_files])
                  ELSE results
            /\ run_pc' = "batch"
       ELSE /\ results' = results
            /\ run_pc' = "done"
    /\ UNCHANGED <<run_fn, themes, test_mode, run_k, run_scene_files,
                   run_stages, run_failed, run_thumbnail, run_metadata,
                   run_result, chains, disk, ffVars, mpVars, stVars, ovVars,
                   prVars, chainVars>>

NextRun ==
    \/ BatchNext
    \/ RunBlueprint
    \/ RunChain
    \/ RunStitch
    \/ RunFinish
    \/ RunReturn

SpecRun == InitRun /\ [][NextRun]_vars

-----------------------------------------------------------------------------
(* Properties of the scene chain *)

\* C1: a chain that succeeds on a blueprint of N >= 1 scenes returns exactly
\* N local clip paths, and the k-th path is the file that holds the clip
\* downloaded for the k-th scene: order kept, nothing skipped or duplicated.
C1_ChainReturnsClipsInSceneOrder ==
    result.kind = "list" =>
        /\ N >= 1
        /\ Len(result.files) = N
        /\ \A k \in 1..N :
              /\ result.files[k] = SceneFilename(scenes[k])
              /\ files[result.files[k]].scene = k
        /\ \A j, k \in 1..N : j # k => result.files[j] # result.files[k]

C1_Witness ==
    /\ result.kind = "list"
    /\ N = 3
    /\ retry_count > 0

\* C2: the request of scene 1 carries no continuity image; the request of
\* scene k > 1 carries one exactly when scene k-1 was generated and
\* _extract_last_frame on its clip succeeded, and the image is then the last
\* frame of scene k-1's clip.
C2_ContinuityImageIsLastFrameOfPredecessor ==
    request.scene # 0 =>
        LET k == request.scene IN
        /\ k = 1 => request.image = NoFrame
        /\ k > 1 =>
              /\ (request.image # NoFrame) <=>
                    (Len(scene_files) >= k - 1 /\ extracted[k - 1] = "ok")
              /\ request.image # NoFrame =>
                    /\ request.image.clip.scene = k - 1
                    /\ request.image.from_end = 0

\* The part of C2 the code keeps: presence of the image, and the scene it
\* was taken from.
ContinuityImageFromPredecessor ==
    request.scene # 0 =>
        LET k == request.scene IN
        /\ k = 1 => request.image = NoFrame
        /\ k > 1 =>
              /\ (request.image # NoFrame) <=>
                    (Len(scene_files) >= k - 1 /\ extracted[k - 1] = "ok")
              /\ request.image # NoFrame =>
                    request.image.clip.scene = k - 1

\* C3: a scene whose generation fails every time is attempted exactly
\* 1 + max_retries times; then the chain is aborted and no request for a
\* later scene is ever posted.
C3_RetryExhaustionAbortsChain ==
    /\ nattempts <= 1 + max_retries
    /\ (pc = "after" /\ scene_file = NoPath) => nattempts = 1 + max_retries
    /\ (pc = "done" /\ abortCause = "retries_exhausted") =>
          /\ nattempts = 1 + max_retries
          /\ result.kind = "None"
          /\ lastRequested = i
          /\ Len(scene_files) = i - 1
          /\ ~ENABLED NextChain

C3_Witness ==
    /\ pc = "done"
    /\ abortCause = "retries_exhausted"
    /\ i < N

\* C4: a done response with no usable asset (videos empty or missing, or a
\* first video without gcsUri) makes the poller return the failure value;
\* success is never reported with an empty asset reference, and
\* _generate_single_scene downloads only after a poll that returned an asset.
C4_DoneWithoutAssetIsFailure ==
    /\ (pc = "polled" /\ pollCause \in {"empty", "no_uri"}) => video_gcs_uri = NoAsset
    /\ (pc = "polled" /\ pollCause = "asset") => video_gcs_uri # NoAsset
    /\ downloadTried => (pollCause = "asset" /\ video_gcs_uri # NoAsset)

C4_Witness ==
    /\ pc = "while"
    /\ pollCause \in {"empty", "no_uri"}
    /\ ~downloadTried
    /\ scene_file = NoPath
    /\ retry_count > 0

\* The three ways a poll can end without an asset.
FailureClass(cause) ==
    CASE cause = "timeout"             -> "timeout"
      [] cause = "http_error"          -> "backend_failure"
      [] cause \in {"empty", "no_uri"} -> "completed_empty"
      [] OTHER                         -> "success"

\* C5: a timeout, a backend failure and a completed-but-empty result are
\* never handed to the caller as the same return value.
C5_FailureOutcomesDistinguishable ==
    \A a, b \in pollSeen :
        (/\ FailureClass(a[1]) # "success"
         /\ FailureClass(b[1]) # "success"
         /\ FailureClass(a[1]) # FailureClass(b[1])) => a[2] # b[2]

-----------------------------------------------------------------------------
(* Properties of the compositors *)

\* The length of the timeline after j uniform clips have been joined.
CumulativeAfter(j) == j * scene_duration - (j - 1) * crossfade_duration

\* C6: with N clips of 8.0 s and a crossfade of 0.5 s, video crossfade j
\* begins at the cumulative timeline duration so far minus one crossfade:
\* 7.5 s for 2 clips; 7.5, 15.0, 22.5, 30.0 s for 5 clips, the cumulative
\* durations being 15.5, 23.0, 30.5, 38.0 s and the total 38.0 s.
C6_CrossfadeOffsetsAreCumulative ==
    (ff_pc = "run" /\ Len(ff_normalized) >= 2) =>
        /\ Len(ff_video) = Len(ff_normalized) - 1
        /\ \A j \in 1..Len(ff_video) :
              /\ ff_video[j].offset = CumulativeAfter(j) - crossfade_duration
              /\ VideoLength(ff_video, j) = CumulativeAfter(j + 1)
        /\ Len(ff_normalized) = 2 => ff_video[1].offset = 75
        /\ Len(ff_normalized) = 5 =>
              /\ [j \in 1..4 |-> ff_video[j].offset] = <<75, 150, 225, 300>>
              /\ [j \in 1..4 |-> VideoLength(ff_video, j)] = <<155, 230, 305, 380>>
              /\ TotalDuration(5) = 380

C8_AudioAndVideoCrossfadesCoincide ==
    (ff_pc = "run" /\ Len(ff_normalized) >= 2) =>
        /\ Len(ff_audio) = Len(ff_video)
        /\ \A j \in 1..Len(ff_video) :
              /\ AudioFadeStart(ff_audio, j) = VideoFadeStart(ff_video, j)
              /\ ff_audio[j].d = ff_video[j].duration
        /\ AudioLength(ff_audio, Len(ff_audio)) = VideoLength(ff_video, Len(ff_video))

\* C9: composing the same clip list again with the same crossfade duration
\* gives the same start offsets and the same total duration (MoviePy) and
\* the same crossfade filters (FFmpeg): nothing an earlier composition left
\* behind enters the computation.
C9_RecompositionGivesSameTimeline ==
    /\ (mp_pc = "export" /\ mp_prev # NoTimeline) =>
          /\ timeline_clips = mp_prev.starts
          /\ mp_duration = mp_prev.duration
    /\ (ff_pc = "run" /\ ff_prev.n # 0) =>
          /\ ff_video = ff_prev.video
          /\ ff_audio = ff_prev.audio

C9_Witness ==
    /\ mp_pc = "export"
    /\ mp_calls = 2
    /\ mp_prev # NoTimeline
    /\ Len(mp_durs) >= 3
    /\ current_start # 0

\* C10: for a non-empty list of valid clips, whenever the crossfade
\* composition fails (normalization or the crossfade command), the fallback
\* concatenation is attempted; no output is returned only if that failed too.
C10_FallbackAfterEveryCrossfadeFailure ==
    (ff_pc = "done" /\ ff_n >= 1 /\ ff_result # "crossfade") =>
        /\ ff_fallback
        /\ ff_result \in {"fallback", "None"}

-----------------------------------------------------------------------------
(* Properties of the scene chain: failures, waits and the poller *)

\* C17: generate_scene_chain never returns a partial chain: what it returns
\* for a blueprint of N scenes is the list of all N clips or a failure value
\* that carries no clip, whichever scene failed and at whichever attempt.
C17_NoPartialChain ==
    /\ result.kind \in {"running", "list", "None", "ValueError"}
    /\ pc = "done" <=> result.kind # "running"
    /\ result.kind = "list" => (Len(result.files) = N /\ Len(scene_files) = N)
    /\ result.kind \in {"None", "ValueError"} => result.files = <<>>

C17_Witness ==
    /\ pc = "done"
    /\ result.kind = "None"
    /\ abortCause = "retries_exhausted"
    /\ Len(scene_files) = 2
    /\ N = 3

\* C18: when _extract_last_frame fails on the clip of scene k < N, for any
\* reason it can fail, the chain goes on: it does not end at scene k, and
\* the request of scene k+1 carries no continuity image.
C18_ExtractionFailureIsNotFatal ==
    \A k \in 1..N :
        extracted[k] \in {"fail", "raise"} =>
            /\ ~(pc = "done" /\ lastRequested = k)
            /\ request.scene = k + 1 => request.image = NoFrame

\* The part of C18 the code keeps: an extraction that returns None (ffmpeg
\* exits non-zero, or an exception inside the try of _extract_last_frame).
ExtractionReturningNoneIsNotFatal ==
    \A k \in 1..N :
        extracted[k] = "fail" =>
            /\ ~(pc = "done" /\ lastRequested = k)
            /\ request.scene = k + 1 => request.image = NoFrame

\* C19: in the while loop of a scene, attempt number a > 1 is preceded by
\* exactly one wait of 30 s, taken right before it; the wait is the same
\* before the 1st, 2nd and 3rd retry; nothing is waited before the first
\* attempt or after the last failed one.
C19_FixedBackoffBeforeEveryRetry ==
    /\ \A k \in 1..Len(waits) : waits[k] = retry_wait
    /\ pc = "generate" => Len(waits) = nattempts
    /\ pc = "sleep" => (nattempts >= 1 /\ Len(waits) = nattempts - 1)
    /\ pc \in {"poll", "polled"} => Len(waits) = nattempts - 1
    /\ (pc \in {"while", "after", "extract"} /\ nattempts >= 1) =>
          Len(waits) = nattempts - 1
    /\ nattempts = 0 => waits = <<>>
    /\ (pc = "done" /\ abortCause = "retries_exhausted") =>
          waits = [k \in 1..max_retries |-> retry_wait]

C19_Witness ==
    /\ pc = "done"
    /\ abortCause = "retries_exhausted"
    /\ Len(waits) = max_retries
    /\ i = 2

\* C20: whatever the backend answers, _poll_operation_completion ends in an
\* asset reference, a failure or the timeout after at most 40 status queries;
\* it sleeps 15 s once after each query that did not end it and not after
\* the query that did, and while it runs it can always take its next step.
C20_PollEndsWithinMaxAttempts ==
    /\ pollQueries <= max_attempts
    /\ pc = "poll" =>
          /\ pollQueries = attempts
          /\ poll_slept = poll_sleep * pollQueries
          /\ ENABLED (PollQuery \/ PollTimeout)
    /\ pc = "polled" =>
          /\ pollCause \in {"asset", "no_uri", "empty", "http_error", "timeout"}
          /\ pollQueries >= 1
          /\ pollCause = "timeout" =>
                (pollQueries = max_attempts /\ poll_slept = poll_sleep * max_attempts)
          /\ pollCause # "timeout" => poll_slept = poll_sleep * (pollQueries - 1)

C20_Witness ==
    /\ pc = "polled"
    /\ pollCause = "asset"
    /\ pollQueries = max_attempts
    /\ poll_slept = poll_sleep * (max_attempts - 1)

-----------------------------------------------------------------------------
(* Properties of stitch_scenes and of the single-clip case *)

\* The file a sequential join of n clips of ClipLength makes.
SequentialJoin(n) ==
    [clips |-> [k \in 1..n |-> k],
     starts |-> [k \in 1..n |-> (k - 1) * ClipLength],
     steps |-> {"concat"}]

\* C11: stitch_scenes on 2 or more valid clip files returns the path of one
\* asset made by simple sequential concatenation whenever the concatenation
\* tooling succeeds; it returns the failure value only when the composition
\* itself failed.
C11_StitchScenesConcatenates ==
    (st_pc = "done" /\ st_n >= 2) =>
        /\ st_tooling => (st_result = "output" /\ st_output = SequentialJoin(st_n))
        /\ st_result = "None" => ~st_tooling

C12_WitnessStitch ==
    /\ st_pc = "done"
    /\ st_n = 1
    /\ st_result = "output"

-----------------------------------------------------------------------------
(* Properties of the caption overlay *)

\* The layer lies inside a frame of the given size.
InFrame(layer, size) ==
    /\ 0 <= layer.x
    /\ 0 <= layer.y
    /\ layer.x + PosScale * layer.w <= PosScale * size[1]
    /\ layer.y + PosScale * layer.h <= PosScale * size[2]

\* C13: for every video size, caption text and style preset, the position
\* (x, y) given to a text layer of size (text_width, text_height) satisfies
\* 0 <= x, 0 <= y, x + text_width <= video_width and
\* y + text_height <= video_height.
C13_CaptionLayerInsideFrame ==
    \A j \in 1..Len(text_clips) : InFrame(text_clips[j], video_size)

\* The part of C13 the code keeps: the layer is inside the frame whenever
\* the video is at least as tall as the canvas.
CaptionLayerInsideTallEnoughFrame ==
    \A j \in 1..Len(text_clips) :
        text_clips[j].h <= video_size[2] => InFrame(text_clips[j], video_size)

\* The positions of the captions that have text and time to show.
Renderable ==
    {k \in 1..Len(captions) :
        /\ Strip(captions[k].text) # <<>>
        /\ EndTime(captions[k]) - captions[k].t_start > 0}

LayerCaptions == {text_clips[j].caption : j \in 1..Len(text_clips)}

InCaptionOrder ==
    \A j, k \in 1..Len(text_clips) :
        j < k => text_clips[j].caption < text_clips[k].caption

\* C14: a caption record with t_end <= t_start, equality included, makes no
\* text layer, and the loop goes on to the captions after it.
C14_NonPositiveWindowIsSkipped ==
    /\ \A j \in 1..Len(text_clips) :
          LET c == captions[text_clips[j].caption] IN
          c.t_end = NoTime \/ c.t_end > c.t_start
    /\ ov_pc = "done" =>
          \A k \in 1..Len(captions) :
              (captions[k].t_end # NoTime /\ captions[k].t_end <= captions[k].t_start) =>
                  /\ k \notin LayerCaptions
                  /\ \A m \in Renderable \ ov_raised : m \in LayerCaptions

C14_Witness ==
    /\ ov_pc = "done"
    /\ Len(captions) = 2
    /\ captions[1].t_end = captions[1].t_start
    /\ Strip(captions[1].text) # <<>>
    /\ LayerCaptions = {2}

\* C15: when no caption raises, the text layers are exactly the records
\* with text left after trimming and a positive duration, one layer each,
\* in blueprint order, starting at t_start and lasting t_end - t_start;
\* records whose windows overlap each have their own layer.
C15_LayersAreTheRenderableCaptions ==
    (ov_pc = "done" /\ ov_raised = {}) =>
        /\ LayerCaptions = Renderable
        /\ Len(text_clips) = Cardinality(Renderable)
        /\ InCaptionOrder
        /\ \A j \in 1..Len(text_clips) :
              LET c == captions[text_clips[j].caption] IN
              /\ text_clips[j].start = c.t_start
              /\ c.t_end # NoTime => text_clips[j].duration = c.t_end - c.t_start
              /\ c.t_end = NoTime => text_clips[j].duration = DefaultCaptionSeconds
        /\ ov_result = (IF Renderable = {} THEN "video_clip" ELSE "composite")

C15_Witness ==
    /\ ov_pc = "done"
    /\ ov_raised = {}
    /\ Len(text_clips) = 2
    /\ text_clips[1].start < text_clips[2].start
    /\ text_clips[2].start < text_clips[1].start + text_clips[1].duration

-----------------------------------------------------------------------------
\* C24: the durationSeconds of every generation request posted is at most
\* the backend maximum of 8 seconds, and it is the scene's duration_sec
\* whenever that is 8 or less.
C24_RequestDurationWithinBackendMax ==
    request # NoRequest =>
        /\ request.durationSeconds <= VeoMaxDuration
        /\ scenes[request.scene].duration_sec <= VeoMaxDuration =>
              request.durationSeconds = scenes[request.scene].duration_sec

C24_Witness ==
    /\ request # NoRequest
    /\ scenes[request.scene].duration_sec > VeoMaxDuration
    /\ request.durationSeconds = VeoMaxDuration
    /\ operation.scene = request.scene

-----------------------------------------------------------------------------
\* Jobs on the backend that nothing has shown to be finished: the one being
\* polled, and one the poller gave up on.
InFlight ==
    (IF pc = "poll" THEN 1 ELSE 0) + (IF orphaned THEN 1 ELSE 0)

\* Every scene before the last one requested has its clip on disk, in the
\* list of the chain, and its last-frame extraction attempted.
RequestsFollowPredecessor ==
    /\ lastRequested <= i
    /\ \A k \in 2..lastRequested :
          /\ files[k - 1] # NoAsset
          /\ Len(scene_files) >= k - 1
          /\ scene_files[k - 1] = SceneFilename(scenes[k - 1])
          /\ extracted[k - 1] \in {"ok", "fail"}

\* C21 (as stated): at any moment at most one remote operation is in flight,
\* and the first request for scene i+1 is posted only after scene i's clip
\* was downloaded and the extraction of its last frame attempted.
C21_AtMostOneOperationInFlight ==
    /\ InFlight <= 1
    /\ RequestsFollowPredecessor

\* C21 (amended): scenes are generated strictly sequentially.  At most one
\* remote operation is being polled at any moment, that of the latest
\* request of the current scene; an operation running beside it is one its
\* poller gave up on.  The first request for scene i+1 is posted only after
\* scene i's clip was downloaded and the extraction of its last frame
\* attempted.
C21_ScenesSequentialOneOperationPolled ==
    /\ pc \in {"poll", "polled"} =>
          /\ operation.scene = i
          /\ request.scene = i
          /\ lastRequested = i
    /\ InFlight = 2 => orphaned /\ pc = "poll" /\ lastRequested >= 1
    /\ RequestsFollowPredecessor

C21_Witness ==
    /\ lastRequested = 2
    /\ pc = "poll"
    /\ orphaned
    /\ extracted[1] = "fail"

-----------------------------------------------------------------------------
\* C22: a call of _generate_single_scene posts one request.  When the post
\* is rejected (status other than 200) or raises, the call returns the
\* failure value with no status query made and no second post, and every
\* further request of the scene is posted by a new turn of the while loop
\* of generate_scene_chain, after its sleep.
C22_OneSubmissionPerCall ==
    /\ pc \in {"poll", "polled"} => submitAnswer = "accepted"
    /\ submitAnswer \in {"rejected", "exception"} =>
          /\ pc = "while"
          /\ scene_file = NoPath
          /\ pollQueries = 0 /\ poll_slept = 0 /\ attempts = 0
          /\ ~downloadTried
          /\ retry_count = nattempts
    /\ nattempts <= max_retries + 1
    /\ nattempts >= 1 => Len(waits) \in {nattempts - 1, nattempts}

C22_Witness ==
    /\ submitAnswer = "rejected"
    /\ pc = "while"
    /\ nattempts = 2
    /\ waits = <<retry_wait>>
    /\ pollCause = "none"

-----------------------------------------------------------------------------
\* The state of the scene the for loop is at.  A rejected or failed post
\* takes the scene to "failed" in the step that posts it.
SceneState ==
    CASE pc \in {"call", "idle"} -> "none"
      [] pc = "scene" -> "pending"
      [] pc \in {"while", "generate"} /\ nattempts = 0 -> "pending"
      [] pc = "sleep" -> "retry"
      [] pc = "generate" /\ nattempts > 0 -> "retry"
      [] pc = "poll" /\ pollQueries = 0 -> "submitted"
      [] pc = "poll" /\ pollQueries > 0 -> "polling"
      [] pc = "polled" -> "polling"
      [] pc \in {"while", "after"} /\ nattempts > 0 /\ scene_file = NoPath ->
            "failed"
      [] pc \in {"while", "after"} /\ scene_file # NoPath -> "succeeded"
      [] pc = "extract" -> "succeeded"
      [] pc = "done" /\ abortCause = "retries_exhausted" -> "aborted"
      [] pc = "done" /\ abortCause # "retries_exhausted" /\ N > 0 -> "succeeded"
      [] pc = "done" /\ N = 0 -> "none"

SceneTransitions ==
    {<<"none", "pending">>,
     <<"pending", "submitted">>, <<"pending", "failed">>,
     <<"submitted", "polling">>,
     <<"polling", "succeeded">>, <<"polling", "failed">>,
     <<"failed", "retry">>, <<"failed", "aborted">>,
     <<"retry", "submitted">>, <<"retry", "failed">>,
     <<"succeeded", "pending">>}

SceneStateSound ==
    /\ SceneState \in {"submitted", "polling"} => submitAnswer = "accepted"
    /\ downloadTried => HasAsset(video_gcs_uri) /\ pollCause = "asset"
    /\ SceneState = "succeeded" =>
          /\ scene_file # NoPath
          /\ downloadTried
          /\ files[scene_file] = video_gcs_uri
          /\ files[scene_file].scene = i
    /\ SceneState = "retry" =>
          /\ scene_file = NoPath
          /\ retry_count \in 1..max_retries
          /\ nattempts = retry_count
    /\ SceneState = "aborted" =>
          /\ scene_file = NoPath
          /\ retry_count = max_retries + 1
          /\ nattempts = max_retries + 1

-----------------------------------------------------------------------------
(* Properties of the prompt *)

\* The script items whose t_start lies in [start, end), in script order.
RECURSIVE ItemsWithin(_, _, _)
ItemsWithin(j, start, end) ==
    IF j > Len(pr_script) THEN <<>>
    ELSE (IF start <= pr_script[j].t_start /\ pr_script[j].t_start < end
          THEN <<j>> ELSE <<>>) \o ItemsWithin(j + 1, start, end)

\* The sum of the durations of scenes 1..k of the blueprint.
RECURSIVE DurationOfFirst(_)
DurationOfFirst(k) ==
    IF k = 0 THEN 0 ELSE DurationOfFirst(k - 1) + pr_scenes[k].duration_sec

\* C23: for scene k, scene_end_time is the sum of the durations of scenes
\* 1..k and scene_start_time is that minus scene k's duration, and the prompt
\* of the request carries exactly the script items with
\* scene_start_time <= t_start < scene_end_time, and no other.
C23_PromptHasTheScriptItemsOfTheWindow ==
    /\ (pr_blueprint /\ pr_pc \in {"scan", "done"}) =>
          /\ scene_end_time = DurationOfFirst(pr_k)
          /\ scene_start_time = DurationOfFirst(pr_k - 1)
    /\ (pr_blueprint /\ pr_pc = "done") =>
          /\ pr_prompt.visual = pr_k
          /\ pr_prompt.dialogue =
                ItemsWithin(1, DurationOfFirst(pr_k - 1), DurationOfFirst(pr_k))

C23_Witness ==
    /\ pr_pc = "done"
    /\ pr_blueprint
    /\ pr_k = 2
    /\ Len(pr_script) = 2
    /\ pr_script[1].t_start = scene_start_time
    /\ pr_script[2].t_start = scene_end_time
    /\ pr_prompt.dialogue = <<1>>

-----------------------------------------------------------------------------
\* C28: whenever _stitch_with_crossfades_only has returned, by crossfade
\* success, by fallback concatenation or by failure, none of the normalized
\* files it created is left in the temp directory.
C28_NormalizedFilesDeletedOnEveryReturn ==
    ff_pc = "done" => Range(ff_normalized) \cap ff_temp = {}

\* What does hold: the normalized files are gone after a crossfade that
\* succeeded.
NormalizedFilesDeletedAfterCrossfade ==
    ff_pc = "done" /\ ff_result = "crossfade" =>
        Range(ff_normalized) \cap ff_temp = {}

-----------------------------------------------------------------------------
(* Properties of the MoviePy crossfade timeline *)

\* The time during which clip k and clip k+1 are both on the timeline.
Overlap(k) ==
    LET lo == IF timeline_clips[k] > timeline_clips[k + 1]
              THEN timeline_clips[k] ELSE timeline_clips[k + 1]
        hi == Min(timeline_clips[k] + mp_durs[k],
                  timeline_clips[k + 1] + mp_durs[k + 1])
    IN  IF hi > lo THEN hi - lo ELSE 0

\* The length of the timeline made of clips 1..k.
CumulativeDuration(k) ==
    Max({timeline_clips[j] + mp_durs[j] : j \in 1..k})

RECURSIVE StartBySum(_)
\* sum over j < k of (d_j - c)
StartBySum(k) ==
    IF k = 1 THEN 0 ELSE StartBySum(k - 1) + mp_durs[k - 1] - mp_c

TimelineByCumulativeFormula ==
    /\ timeline_clips[1] = 0
    /\ \A k \in 1..(Len(timeline_clips) - 1) :
          /\ timeline_clips[k + 1] = timeline_clips[k] + mp_durs[k] - mp_c
          /\ timeline_clips[k + 1] = StartBySum(k + 1)
          /\ Overlap(k) = mp_c
          /\ CumulativeDuration(k + 1) =
                CumulativeDuration(k) + mp_durs[k + 1] - mp_c

C29_FallbackAfterCrossfadeFailure ==
    (mp_pc = "done" /\ mp_result = "None" /\ Len(mp_durs) >= 2
        /\ Len(timeline_clips) = Len(mp_durs)) => mp_fallback

-----------------------------------------------------------------------------
(* Properties of a run and of a batch *)

\* The stages of a run, in the order the function has them.
StageOrder(fn) ==
    IF fn = "run_complete_pipeline"
    THEN <<"chain", "composition", "overlay", "metadata">>
    ELSE <<"chain", "composition", "metadata">>

IsPrefix(a, b) == Len(a) <= Len(b) /\ a = SubSeq(b, 1, Len(a))

C27_EarlierChainFilesUntouched ==
    \A c \in 1..Len(chains) :
        \A p \in 1..Len(chains[c].files) :
            disk[chains[c].files[p]].video = chains[c].video

-----------------------------------------------------------------------------
(* Termination of the chain *)

\* A measure of the work the call of generate_scene_chain has left: the
\* scenes of the for loop still to come, the turns of the while loop the
\* scene has left, the status queries the poll has left, and the statements
\* between them.  A job the poller gave up on counts while the backend runs
\* it.
Rank ==
    LET turn == max_attempts + 5
        loop(rc) == 3 + (max_retries + 1 - rc) * turn
        perScene == loop(0) + 1
        inScene ==
            CASE pc = "scene" -> perScene
              [] pc = "while" ->
                   IF scene_file = NoPath THEN loop(retry_count) ELSE 3
              [] pc = "sleep" -> loop(retry_count) - 1
              [] pc = "generate" -> loop(retry_count) - 2
              [] pc = "poll" -> loop(retry_count) - 3 - attempts
              [] pc = "polled" -> loop(retry_count) - turn + 1
              [] pc = "after" -> 2
              [] pc = "extract" -> 1
        left ==
            CASE pc = "done" -> 0
              [] pc \in {"call", "idle"} -> N * perScene + 1
              [] OTHER -> (N - i) * perScene + inScene
    IN  2 * left + (IF orphaned THEN 1 ELSE 0)

\* What the call has done and can still do is within the retry budget.
AttemptsWithinBudget ==
    /\ Rank >= 0
    /\ nattempts <= max_retries + 1
    /\ chainAttempts <= (max_retries + 1) * N
    /\ pc \notin {"call", "done", "idle"} =>
          chainAttempts <= (max_retries + 1) * (i - 1) + nattempts
    /\ pc = "done" =>
          result.kind \in {"list", "None", "ValueError"}
    /\ pc = "done" /\ result.kind = "list" =>
          Len(result.files) = N /\ chainAttempts >= N
    /\ pc \notin {"done", "idle"} => ENABLED NextChain

\* C31: generate_scene_chain always terminates.  Every step of the call
\* uses up some of the work left, which is never negative, and a call that
\* has not returned can take a step; it returns N clips, None or (for no
\* scenes) an error.  A scene gets at most 4 attempts and the chain at most
\* 4*N, and no attempt is made for a scene whose clip was already obtained.
C31_ChainTerminatesWithinFourAttemptsPerScene ==
    /\ []AttemptsWithinBudget
    /\ [][Rank' < Rank]_vars
    /\ [][chainAttempts' # chainAttempts =>
             /\ chainAttempts' = chainAttempts + 1
             /\ scene_file = NoPath
             /\ Len(scene_files) = i - 1
             /\ files[SceneFilename(scenes[i])] = NoAsset]_vars

C31_Witness ==
    /\ pc = "done"
    /\ result.kind = "list"
    /\ N = PollScenes
    /\ chainAttempts = (max_retries + 1) * N
    /\ ~orphaned

-----------------------------------------------------------------------------
\* The scenes whose time window, as _build_complete_prompt computes it,
\* holds script item j.
ScenesOfItem(j) ==
    {k \in 1..Len(pr_scenes) :
        InWindow(pr_script[j],
                 SceneStartTime(pr_scenes, pr_scenes[k]),
                 SceneEndTime(pr_scenes, pr_scenes[k]))}

\* C32: for a blueprint whose scene numbers are contiguous from 1 and whose
\* durations sum to T, every script item with 0 <= t_start < T lies in the
\* window of exactly one scene, and the prompt built for a scene holds an
\* item exactly when that scene is the one: no line is dropped or sent to
\* two scenes.
C32_ScriptItemsGoToExactlyOneScene ==
    \A j \in 1..Len(pr_script) :
        /\ (0 <= pr_script[j].t_start
              /\ pr_script[j].t_start < SumDurations(pr_scenes))
             => Cardinality(ScenesOfItem(j)) = 1
        /\ (pr_blueprint /\ pr_pc = "done") =>
             ((\E x \in 1..Len(pr_prompt.dialogue) : pr_prompt.dialogue[x] = j)
                <=> ScenesOfItem(j) = {pr_k})

C32_Witness ==
    /\ pr_pc = "done"
    /\ pr_blueprint
    /\ Len(pr_scenes) = 3
    /\ pr_k = 3
    /\ Len(pr_script) = 2
    /\ pr_script[1].t_start = scene_start_time
    /\ pr_script[2].t_start < scene_start_time
    /\ pr_prompt.dialogue = <<1>>
    /\ ScenesOfItem(2) = {1}

-----------------------------------------------------------------------------
\* The request of the scene the while loop is at is the one its first
\* attempt posted: its prompt (that of the scene) and its continuity image
\* (previous_frame).
RequestOfCurrentScene ==
    (pc \in {"while", "sleep", "generate", "poll", "polled", "after"}
       /\ nattempts >= 1)
      => /\ request.scene = i
         /\ request.image = previous_frame
         /\ request = BuildRequest(i, scenes[i], previous_frame)

\* C33: every attempt for a scene, the first one and each retry, is posted
\* with the same prompt and the same continuity input.  The retry loop
\* leaves previous_frame as it is; previous_frame changes only in the
\* extraction that follows a scene that succeeded.
C33_RetriesRepeatTheSameRequest ==
    /\ []RequestOfCurrentScene
    /\ [][(nattempts' = nattempts + 1 /\ nattempts >= 1) =>
             /\ request' = request
             /\ previous_frame' = previous_frame]_vars
    /\ [][previous_frame' # previous_frame =>
             /\ pc = "extract"
             /\ scene_file # NoPath
             /\ scene_files[i] = scene_file
             /\ files[scene_file].scene = i]_vars

C33_Witness ==
    /\ pc = "poll"
    /\ i = 2
    /\ nattempts = 3
    /\ request.image # NoFrame
    /\ request.image = previous_frame
    /\ waits = <<retry_wait, retry_wait>>

-----------------------------------------------------------------------------
\* The attempt of the scene in work has ended with a download that failed.
DownloadHasFailed ==
    pc = "while" /\ downloadTried /\ scene_file = NoPath

\* C34: when the remote operation ended with an asset reference and the
\* download of the asset fails, the attempt counts as a failed one, and the
\* asset is not downloaded a second time: the next attempt (if the scene has
\* one left) posts a new request, and every download is the first one of
\* the job that the same attempt posted and polled.
C34_FailedDownloadCostsANewGeneration ==
    /\ [](DownloadHasFailed =>
             /\ pollCause = "asset"
             /\ HasAsset(video_gcs_uri)
             /\ retry_count = nattempts
             /\ files[SceneFilename(scenes[i])] = NoAsset)
    /\ [][DownloadHasFailed =>
             \/ pc' \in {"sleep", "generate"} /\ retry_count <= max_retries
             \/ pc' = "after" /\ retry_count = max_retries + 1]_vars
    /\ [][(pc = "polled" /\ downloadTried') =>
             /\ ~downloadTried
             /\ submitAnswer = "accepted"
             /\ pollQueries >= 1
             /\ operation.scene = i]_vars
    /\ [][(pc = "generate" /\ pc' = "poll") =>
             /\ ~downloadTried'
             /\ pollQueries' = 0
             /\ request'.scene = i]_vars

C34_Witness ==
    /\ pc = "poll"
    /\ i = 1
    /\ nattempts = 2
    /\ retry_count = 1
    /\ pollCause = "asset"
    /\ pollQueries = 0
    /\ ~downloadTried
    /\ files[1] = NoAsset

-----------------------------------------------------------------------------
\* A step of the poller that is a status query.
IsStatusQuery == pc = "poll" /\ pollQueries' = pollQueries + 1

\* C35: in _poll_operation_completion a status query answered with a
\* status other than 200 ends the poll at once with the failure value and
\* without a sleep; a status query that raises is counted as one attempt,
\* is followed by the 15 s sleep and by the next query, until 40 attempts
\* are counted and the poll times out.
C35_HttpErrorEndsPollExceptionIsCounted ==
    /\ [](pc = "poll" =>
             /\ attempts < max_attempts => ENABLED PollQuery
             /\ pollQueries >= 1 =>
                   pollAnswer \in {"exception", "pending", "done_malformed"})
    /\ [][(IsStatusQuery /\ pollAnswer' = "http_error") =>
             /\ pc' = "polled"
             /\ pollCause' = "http_error"
             /\ video_gcs_uri' = NoAsset
             /\ poll_slept' = poll_slept]_vars
    /\ [][(IsStatusQuery /\ pollAnswer' = "exception") =>
             /\ pc' = "poll"
             /\ attempts' = attempts + 1
             /\ poll_slept' = poll_slept + poll_sleep
             /\ UNCHANGED <<video_gcs_uri, pollCause, retry_count>>]_vars
    /\ [][(pc = "poll" /\ attempts = max_attempts) =>
             /\ pc' = "polled"
             /\ pollCause' = "timeout"
             /\ video_gcs_uri' = NoAsset
             /\ UNCHANGED <<pollQueries, poll_slept>>]_vars

C35_Witness ==
    /\ pc = "polled"
    /\ pollCause = "timeout"
    /\ pollAnswer = "exception"
    /\ pollQueries = max_attempts
    /\ poll_slept = poll_sleep * max_attempts

C35_WitnessHttpError ==
    /\ pc = "polled"
    /\ pollCause = "http_error"
    /\ pollAnswer = "http_error"
    /\ pollQueries = 1
    /\ poll_slept = 0

-----------------------------------------------------------------------------
\* C36: empty input is rejected before any side effect.  generate_scene_chain
\* on a blueprint without scenes raises with no request posted, no status
\* query made and no file written; stitch_scenes and crossfade_scenes on an
\* empty list of clips raise with no output produced and nothing composed.
C36_EmptyInputRaisesBeforeAnySideEffect ==
    /\ (pc # "idle" /\ N = 0) =>
          /\ pc \in {"call", "done"}
          /\ pc = "done" => result = [kind |-> "ValueError", files |-> <<>>]
          /\ request = NoRequest
          /\ lastRequested = 0
          /\ nattempts = 0
          /\ pollQueries = 0
          /\ ~downloadTried
          /\ \A p \in DOMAIN files : files[p] = NoAsset
    /\ (st_pc # "idle" /\ st_n = 0) =>
          /\ st_pc \in {"call", "done"}
          /\ st_pc = "done" => st_result = "ValueError"
          /\ st_error = "none"
          /\ st_output = NoOutput
    /\ (mp_pc # "idle" /\ mp_durs = <<>>) =>
          /\ mp_pc \in {"call", "done"}
          /\ mp_pc = "done" => mp_result = "ValueError"
          /\ timeline_clips = <<>>
          /\ mp_effects = <<>>
          /\ mp_duration = 0
          /\ ~mp_fallback

C36_Witness ==
    /\ pc = "done"
    /\ N = 0
    /\ result.kind = "ValueError"

C36_WitnessStitch ==
    /\ st_pc = "done"
    /\ st_n = 0
    /\ st_result = "ValueError"

C36_WitnessCrossfade ==
    /\ mp_pc = "done"
    /\ mp_durs = <<>>
    /\ mp_result = "ValueError"

-----------------------------------------------------------------------------
\* The script items of the window of the scene the prompt was built for.
ItemsOfScene ==
    ItemsWithin(1, DurationOfFirst(pr_k - 1), DurationOfFirst(pr_k))

\* C37: the prompt posted for a scene is never missing.  With no script
\* item in the scene's window, or with no blueprint passed, it is the
\* scene's visual prompt alone; otherwise it is the visual prompt followed by
\* the dialogue of every item of the window, in script order.
C37_PromptIsVisualPromptPlusWindowDialogue ==
    pr_pc = "done" =>
        /\ pr_prompt # NoPrompt
        /\ pr_k \in 1..Len(pr_scenes)
        /\ pr_prompt.visual = pr_k
        /\ (~pr_blueprint \/ ItemsOfScene = <<>>) =>
              pr_prompt = [visual |-> pr_k, dialogue |-> <<>>]
        /\ (pr_blueprint /\ ItemsOfScene # <<>>) =>
              /\ pr_prompt.dialogue = ItemsOfScene
              /\ \A x, y \in 1..Len(pr_prompt.dialogue) :
                    x < y => pr_prompt.dialogue[x] < pr_prompt.dialogue[y]

C37_Witness ==
    /\ pr_pc = "done"
    /\ pr_blueprint
    /\ pr_k = 2
    /\ Len(pr_script) = MaxScript
    /\ pr_prompt = [visual |-> 2, dialogue |-> <<>>]

C37_WitnessNoBlueprint ==
    /\ pr_pc = "done"
    /\ ~pr_blueprint
    /\ pr_k = 1
    /\ pr_prompt = [visual |-> 1, dialogue |-> <<>>]

C37_WitnessDialogue ==
    /\ pr_pc = "done"
    /\ pr_blueprint
    /\ pr_k = 2
    /\ pr_prompt = [visual |-> 2, dialogue |-> <<1, 2>>]

-----------------------------------------------------------------------------
\* The file names of clips 1..n in scene order.
ClipNames(n) == [p \in 1..n |-> SceneFilename(Scene(p, 0))]

\* C38: run_complete_pipeline goes on to the composition only when the
\* chain returned exactly 5 clips.  On a blueprint with N # 5 scenes the
\* run ends in failure (None, or the chain's error for N = 0) with nothing
\* composed, also when all N scenes were generated; and when the run
\* metadata is written, its scene list is the 5 clip names in scene order.
C38_CompositionOnlyAfterFiveClips ==
    run_fn = "run_complete_pipeline" =>
        /\ (run_pc \in {"stitch", "finish"}
              \/ \E x \in 1..Len(run_stages) : run_stages[x] # "chain") =>
              /\ themes[1] = ExpectedScenes
              /\ run_scene_files = ClipNames(ExpectedScenes)
        /\ (themes[1] # ExpectedScenes /\ run_pc \in {"returned", "done"}) =>
              /\ run_result \in {"None", "raised"}
              /\ run_result = "raised" <=> (themes[1] = 0 /\ run_stages # <<>>)
              /\ run_stages \in {<<>>, <<"chain">>}
              /\ ~run_metadata
              /\ run_thumbnail = "none"
        /\ run_metadata => run_scene_files = ClipNames(ExpectedScenes)

\* all the scenes of a 4-scene blueprint were generated, and the run failed
C38_Witness ==
    /\ run_fn = "run_complete_pipeline"
    /\ run_pc = "done"
    /\ themes[1] = ExpectedScenes - 1
    /\ run_scene_files = ClipNames(ExpectedScenes - 1)
    /\ run_result = "None"
    /\ run_failed = "chain"

C38_WitnessFiveClips ==
    /\ run_fn = "run_complete_pipeline"
    /\ run_stages = <<"chain", "composition">>
    /\ run_scene_files = ClipNames(ExpectedScenes)

\* stitch_scenes never returns a file for 5 clips (C11), so no run of
\* run_complete_pipeline gets as far as its metadata.
RunMetadataNeverWritten ==
    run_fn = "run_complete_pipeline" => ~run_metadata

====
